---------------------------- MODULE Spec2Model ----------------------------
(***************************************************************************)
(* A model of the si-scale crate: Base (src/src/base.rs), Prefix           *)
(* (src/src/prefix/mod.rs), Value (src/src/value.rs) and the pre-built     *)
(* helpers (src/src/helpers.rs).                                           *)
(*                                                                         *)
(* Numbers.  An f64 is modelled as one of NaN, +/-infinity, +/-0 or a      *)
(* finite non-zero rational  s * c * 2^e2 * 5^e5  with c >= 1 coprime to   *)
(* 10 (a canonical form, so equal values are equal records).  Scaling by   *)
(* a power of 1000 or 1024 is exact in this form.  The rounding of the     *)
(* 53-bit significand is abstracted away; the RANGE of f64 is kept: a      *)
(* result of magnitude >= 2^1024 is an infinity, a result of magnitude     *)
(* <= 2^-1075 is a zero.  i32 arithmetic keeps its width.                  *)
(***************************************************************************)
EXTENDS Integers, Sequences, FiniteSets, TLC

(***************************************************************************)
(* Bounds of the model.                                                    *)
(***************************************************************************)
\* inputs range over m * 1000^k and m * 1024^k for k in -MaxK .. MaxK
MaxK == 9
\* Custom constraint lists have at most MaxCustomLen elements
MaxCustomLen == 3
\* closest_prefix_for is called directly with exponents in -MaxExp .. MaxExp
MaxExp == 31
\* numeric texts have up to MaxDigits digits on each side of the point
MaxDigits == 7
\* arbitrary texts have up to MaxTextLen characters
MaxTextLen == 5

(***************************************************************************)
(* Natural numbers of any size: little-endian sequences of limbs in base   *)
(* 10^4, without leading zero limbs (<<>> is 0).  TLC's integers are 32    *)
(* bits wide, and 1000^9 or 2^1024 do not fit.                             *)
(***************************************************************************)
Limb == 10000

\* t without its highest entry when that entry is zero
BigStrip(t) ==
    IF Len(t) > 0 /\ t[Len(t)] = 0 THEN SubSeq(t, 1, Len(t) - 1) ELSE t

\* one pass of carries: every entry keeps its low limb and takes the carry
\* of the entry below it
BigCarryPass(t) ==
    [i \in 1..(Len(t) + 1) |->
        (IF i <= Len(t) THEN t[i] % Limb ELSE 0)
      + (IF i > 1 THEN t[i - 1] \div Limb ELSE 0)]

RECURSIVE BigNorm(_)
\* the limbs of the number whose entries t[i] (each < 2^31 - Limb, the
\* highest not zero) weigh Limb^(i-1): carries are passed up until every
\* entry is a limb
BigNorm(t) ==
    IF \A i \in 1..Len(t) : t[i] < Limb THEN t
    ELSE BigNorm(BigStrip(BigCarryPass(t)))

\* n * m for a big natural n and 1 <= m <= Limb
BigMul(n, m) == BigNorm([i \in 1..Len(n) |-> n[i] * m])

RECURSIVE BigMulPow(_, _, _)
\* n * m^k (r is evaluated before the descent)
BigMulPow(n, m, k) ==
    IF k = 0 THEN n
    ELSE LET r == BigMul(n, m)
         IN  IF Len(r) >= 0 THEN BigMulPow(r, m, k - 1) ELSE <<>>

\* n * 2^p, thirteen doublings at a time
BigMul2(n, p) == BigMulPow(BigMulPow(n, 8192, p \div 13), 2, p % 13)

\* n * 5^q, five quintuplings at a time
BigMul5(n, q) == BigMulPow(BigMulPow(n, 3125, q \div 5), 5, q % 5)

RECURSIVE BigCmpFrom(_, _, _)
\* a against b on the limbs 1..i, the higher ones being equal
BigCmpFrom(a, b, i) ==
    IF i = 0 THEN 0
    ELSE IF a[i] < b[i] THEN -1
    ELSE IF a[i] > b[i] THEN 1
    ELSE BigCmpFrom(a, b, i - 1)

\* -1, 0 or 1 as a < b, a = b, a > b
BigCmp(a, b) ==
    IF Len(a) < Len(b) THEN -1
    ELSE IF Len(a) > Len(b) THEN 1
    ELSE BigCmpFrom(a, b, Len(a))

Max(a, b) == IF a >= b THEN a ELSE b

\* the sign of  c * 2^p * 5^q - 1  for 1 <= c < 2^14 and any integers p, q.
\* Since 2^(2q) <= 5^q <= 2^(3q) for q >= 0 and 2^(3q) <= 5^q <= 2^(2q) for
\* q <= 0, the number lies in [2^lo, 2^hi): far from 1 the sign is known
\* without computing the number.
CmpOne(c, p, q) ==
    LET lo == p + (IF q >= 0 THEN 2 * q ELSE 3 * q)
        hi == p + 14 + (IF q >= 0 THEN 3 * q ELSE 2 * q)
    IN  IF lo > 0 THEN 1
        ELSE IF hi <= 0 THEN -1
        ELSE BigCmp(BigMul5(BigMul2(BigNorm(<<c>>), Max(p, 0)), Max(q, 0)),
                    BigMul5(BigMul2(<<1>>, Max(-p, 0)), Max(-q, 0)))

(***************************************************************************)
(* f64.  k is the class of the number, s its sign (1 or -1); the fields    *)
(* c, e2, e5 are 0 except for a finite non-zero number.  The class "fin"   *)
(* is the number s * c * 2^e2 * 5^e5 and the class "below" the f64 next to *)
(* it towards zero.                                                        *)
(***************************************************************************)
NaN == [k |-> "nan", s |-> 1, c |-> 0, e2 |-> 0, e5 |-> 0]
Inf(s) == [k |-> "inf", s |-> s, c |-> 0, e2 |-> 0, e5 |-> 0]
Zero(s) == [k |-> "zero", s |-> s, c |-> 0, e2 |-> 0, e5 |-> 0]

RECURSIVE Fin(_, _, _, _)
\* the finite number s * m * 2^e2 * 5^e5 (m >= 1) in canonical form
Fin(s, m, e2, e5) ==
    IF m % 2 = 0 THEN Fin(s, m \div 2, e2 + 1, e5)
    ELSE IF m % 5 = 0 THEN Fin(s, m \div 5, e2, e5 + 1)
    ELSE [k |-> "fin", s |-> s, c |-> m, e2 |-> e2, e5 |-> e5]

\* the f64 next to the finite non-zero x towards zero
JustBelow(x) == [x EXCEPT !.k = "below"]

\* the finite non-zero numbers
IsFiniteNonZero(x) == x.k \in {"fin", "below"}

\* f64 is binary64: the largest finite magnitude is below 2^F64MaxExp, the
\* smallest non-zero magnitude is 2^F64MinExp, the smallest normal one
\* 2^F64MinNormalExp
F64MaxExp == 1024
F64MinExp == -1074
F64MinNormalExp == -1022

\* the f64 nearest to s * c * 2^e2 * 5^e5, as far as the range goes: an
\* infinity from 2^1024 on, a zero up to 2^-1075 (half the smallest
\* subnormal, a tie that rounds to even)
Round(s, c, e2, e5) ==
    IF CmpOne(c, e2 - F64MaxExp, e5) >= 0 THEN Inf(s)
    ELSE IF CmpOne(c, e2 - (F64MinExp - 1), e5) <= 0 THEN Zero(s)
    ELSE [k |-> "fin", s |-> s, c |-> c, e2 |-> e2, e5 |-> e5]

\* x / p and x * p for a finite p > 0 that is a power of 2 times a power
\* of 5 (p.c = 1): the scaling factors of Base::pow
\* scaling x keeps what x is next to: the quotient of the f64 just below y
\* is the f64 just below the quotient of y
Scaled(x, r) == IF x.k = "below" /\ r.k = "fin" THEN JustBelow(r) ELSE r

F64Div(x, p) ==
    IF IsFiniteNonZero(x)
    THEN Scaled(x, Round(x.s, x.c, x.e2 - p.e2, x.e5 - p.e5))
    ELSE x

F64Mul(x, p) ==
    IF IsFiniteNonZero(x)
    THEN Scaled(x, Round(x.s, x.c, x.e2 + p.e2, x.e5 + p.e5))
    ELSE x

\* f64::abs
F64Abs(x) == IF x.k = "nan" THEN x ELSE [x EXCEPT !.s = 1]

\* |x| >= 2^p * 5^q, for a finite non-zero x: 2^p * 5^q is an f64 or lies
\* far from x, so the f64 just below y is >= 2^p * 5^q when y is > it
AbsGeq(x, p, q) ==
    IF x.k = "below" THEN CmpOne(x.c, x.e2 - p, x.e5 - q) > 0
    ELSE CmpOne(x.c, x.e2 - p, x.e5 - q) >= 0

\* the number of binary digits of 1 <= c < 2^14
BitLen(c) == CHOOSE b \in 1..14 : 2^(b - 1) <= c /\ c < 2^b

\* floor(log2 |x|) for a finite non-zero x: the L with 2^L <= |x| < 2^(L+1).
\* log2 |x| is  e2 + log2(c) + e5 * log2(5)  with  n <= e2 + log2(c) < n + 1
\* for n = e2 + BitLen(c) - 1, and y is 10^6 * e5 * log2(5) to within 100.
FloorLog2(x) ==
    LET n == x.e2 + BitLen(x.c) - 1
        y == x.e5 * 2321928
    IN  IF x.e5 = 0 THEN n
        ELSE CHOOSE L \in (n + ((y - 100) \div 1000000))
                          ..(n + ((y + 100) \div 1000000) + 1) :
                AbsGeq(x, L, 0) /\ ~AbsGeq(x, L + 1, 0)

\* floor(log10 |x|) for a finite non-zero x: the L with
\* 10^L <= |x| < 10^(L+1).  y is 10^5 * (e2 * log10(2) + e5 * log10(5)) to
\* within 1, and (b - 1) * log10(2) <= log10(c) < b * log10(2) for
\* b = BitLen(c): the floors lo and hi of the two bounds log10 |x| lies
\* between are the same integer or two successive ones.
FloorLog10(x) ==
    LET b == BitLen(x.c)
        y == x.e2 * 30103 + x.e5 * 69897
        lo == (y + (b - 1) * 30103 - 2) \div 100000
        hi == (y + b * 30103 + 2) \div 100000
    IN  IF lo = hi THEN lo
        ELSE IF AbsGeq(x, hi, hi) THEN hi ELSE lo

(***************************************************************************)
(* i32                                                                     *)
(***************************************************************************)
I32Max == 2147483647
I32Min == -I32Max - 1

\* a + b wrapped around to i32, without leaving the 32 bits on the way
WrapAddI32(a, b) ==
    IF b > 0 /\ a > I32Max - b THEN ((a - I32Max) - 1) + b + I32Min
    ELSE IF b < 0 /\ a < I32Min - b THEN ((a - I32Min) + 1) + b + I32Max
    ELSE a + b

\* a * 3 in i32: the product when it fits; otherwise the build decides,
\* a panic ("attempt to multiply with overflow") with overflow checks (the
\* debug profile), the wrapped product without them (the release profile)
MulI32By3(a) ==
    IF a <= I32Max \div 3 /\ a >= -(I32Max \div 3)
    THEN {[panic |-> FALSE, val |-> a * 3]}
    ELSE {[panic |-> TRUE, val |-> 0],
          [panic |-> FALSE, val |-> WrapAddI32(WrapAddI32(a, a), a)]}

(***************************************************************************)
(* Prefix (src/src/prefix/mod.rs)                                          *)
(***************************************************************************)
Prefix == <<"Yocto", "Zepto", "Atto", "Femto", "Pico", "Nano", "Micro",
            "Milli", "Unit", "Kilo", "Mega", "Giga", "Tera", "Peta", "Exa",
            "Zetta", "Yotta">>

Prefixes == {Prefix[i] : i \in 1..Len(Prefix)}

\* Prefix::exponent, and `prefix as i32`: the discriminant
PrefixExponent(p) ==
    CASE p = "Yocto" -> -24
      [] p = "Zepto" -> -21
      [] p = "Atto"  -> -18
      [] p = "Femto" -> -15
      [] p = "Pico"  -> -12
      [] p = "Nano"  -> -9
      [] p = "Micro" -> -6
      [] p = "Milli" -> -3
      [] p = "Unit"  -> 0
      [] p = "Kilo"  -> 3
      [] p = "Mega"  -> 6
      [] p = "Giga"  -> 9
      [] p = "Tera"  -> 12
      [] p = "Peta"  -> 15
      [] p = "Exa"   -> 18
      [] p = "Zetta" -> 21
      [] p = "Yotta" -> 24

\* impl TryFrom<i32> for Prefix
\* a conversion that accepts every multiple of 3 and takes the nearest prefix
PrefixTryFromAnyMultiple(value) ==
    IF value % 3 = 0
    THEN [ok |-> TRUE,
          prefix |-> Prefix[(IF value < -24 THEN -8
                             ELSE IF value > 24 THEN 8
                             ELSE value \div 3) + 9]]
    ELSE [ok |-> FALSE, prefix |-> "ExponentParsing"]

\* on failure the second field names the variant of SIUnitsError
PrefixTryFrom(value) ==
    CASE value = -24 -> [ok |-> TRUE, prefix |-> "Yocto"]
      [] value = -21 -> [ok |-> TRUE, prefix |-> "Zepto"]
      [] value = -18 -> [ok |-> TRUE, prefix |-> "Atto"]
      [] value = -15 -> [ok |-> TRUE, prefix |-> "Femto"]
      [] value = -12 -> [ok |-> TRUE, prefix |-> "Pico"]
      [] value = -9  -> [ok |-> TRUE, prefix |-> "Nano"]
      [] value = -6  -> [ok |-> TRUE, prefix |-> "Micro"]
      [] value = -3  -> [ok |-> TRUE, prefix |-> "Milli"]
      [] value = 0   -> [ok |-> TRUE, prefix |-> "Unit"]
      [] value = 3   -> [ok |-> TRUE, prefix |-> "Kilo"]
      [] value = 6   -> [ok |-> TRUE, prefix |-> "Mega"]
      [] value = 9   -> [ok |-> TRUE, prefix |-> "Giga"]
      [] value = 12  -> [ok |-> TRUE, prefix |-> "Tera"]
      [] value = 15  -> [ok |-> TRUE, prefix |-> "Peta"]
      [] value = 18  -> [ok |-> TRUE, prefix |-> "Exa"]
      [] value = 21  -> [ok |-> TRUE, prefix |-> "Zetta"]
      [] value = 24  -> [ok |-> TRUE, prefix |-> "Yotta"]
      [] OTHER       -> [ok |-> FALSE, prefix |-> "ExponentParsing"]

\* impl FromStr for Prefix
\* a parser that takes a symbol in either case, the first arm that fits
PrefixFromStrAnyCase(s) ==
    CASE s \in {"Yocto", "yocto", "y", "Y"} ->
            [ok |-> TRUE, prefix |-> "Yocto", err |-> "", errtext |-> ""]
      [] s \in {"Zepto", "zepto", "z", "Z"} ->
            [ok |-> TRUE, prefix |-> "Zepto", err |-> "", errtext |-> ""]
      [] s \in {"Atto", "atto", "a", "A"} ->
            [ok |-> TRUE, prefix |-> "Atto", err |-> "", errtext |-> ""]
      [] s \in {"Femto", "femto", "f", "F"} ->
            [ok |-> TRUE, prefix |-> "Femto", err |-> "", errtext |-> ""]
      [] s \in {"Pico", "pico", "p", "P"} ->
            [ok |-> TRUE, prefix |-> "Pico", err |-> "", errtext |-> ""]
      [] s \in {"Nano", "nano", "n", "N"} ->
            [ok |-> TRUE, prefix |-> "Nano", err |-> "", errtext |-> ""]
      [] s \in {"Micro", "micro", "µ"} ->
            [ok |-> TRUE, prefix |-> "Micro", err |-> "", errtext |-> ""]
      [] s \in {"Milli", "milli", "m", "M"} ->
            [ok |-> TRUE, prefix |-> "Milli", err |-> "", errtext |-> ""]
      [] s \in {"Kilo", "kilo", "k", "K"} ->
            [ok |-> TRUE, prefix |-> "Kilo", err |-> "", errtext |-> ""]
      [] s \in {"Mega", "mega"} ->
            [ok |-> TRUE, prefix |-> "Mega", err |-> "", errtext |-> ""]
      [] s \in {"Giga", "giga", "G", "g"} ->
            [ok |-> TRUE, prefix |-> "Giga", err |-> "", errtext |-> ""]
      [] s \in {"Tera", "tera", "T", "t"} ->
            [ok |-> TRUE, prefix |-> "Tera", err |-> "", errtext |-> ""]
      [] s \in {"Peta", "peta"} ->
            [ok |-> TRUE, prefix |-> "Peta", err |-> "", errtext |-> ""]
      [] s \in {"Exa", "exa", "E", "e"} ->
            [ok |-> TRUE, prefix |-> "Exa", err |-> "", errtext |-> ""]
      [] s \in {"Zetta", "zetta"} ->
            [ok |-> TRUE, prefix |-> "Zetta", err |-> "", errtext |-> ""]
      [] s \in {"Yotta", "yotta"} ->
            [ok |-> TRUE, prefix |-> "Yotta", err |-> "", errtext |-> ""]
      [] OTHER ->
            [ok |-> FALSE, prefix |-> "", err |-> "ExponentParsing",
             errtext |-> s]

\* Ok(prefix), or Err(SIUnitsError::ExponentParsing(s.to_string()))
PrefixFromStr(s) ==
    CASE s \in {"Yocto", "yocto", "y"} ->
            [ok |-> TRUE, prefix |-> "Yocto", err |-> "", errtext |-> ""]
      [] s \in {"Zepto", "zepto", "z"} ->
            [ok |-> TRUE, prefix |-> "Zepto", err |-> "", errtext |-> ""]
      [] s \in {"Atto", "atto", "a"} ->
            [ok |-> TRUE, prefix |-> "Atto", err |-> "", errtext |-> ""]
      [] s \in {"Femto", "femto", "f"} ->
            [ok |-> TRUE, prefix |-> "Femto", err |-> "", errtext |-> ""]
      [] s \in {"Pico", "pico", "p"} ->
            [ok |-> TRUE, prefix |-> "Pico", err |-> "", errtext |-> ""]
      [] s \in {"Nano", "nano", "n"} ->
            [ok |-> TRUE, prefix |-> "Nano", err |-> "", errtext |-> ""]
      [] s \in {"Micro", "micro", "µ"} ->
            [ok |-> TRUE, prefix |-> "Micro", err |-> "", errtext |-> ""]
      [] s \in {"Milli", "milli", "m"} ->
            [ok |-> TRUE, prefix |-> "Milli", err |-> "", errtext |-> ""]
      [] s \in {"Kilo", "kilo", "k"} ->
            [ok |-> TRUE, prefix |-> "Kilo", err |-> "", errtext |-> ""]
      [] s \in {"Mega", "mega", "M"} ->
            [ok |-> TRUE, prefix |-> "Mega", err |-> "", errtext |-> ""]
      [] s \in {"Giga", "giga", "G"} ->
            [ok |-> TRUE, prefix |-> "Giga", err |-> "", errtext |-> ""]
      [] s \in {"Tera", "tera", "T"} ->
            [ok |-> TRUE, prefix |-> "Tera", err |-> "", errtext |-> ""]
      [] s \in {"Peta", "peta", "P"} ->
            [ok |-> TRUE, prefix |-> "Peta", err |-> "", errtext |-> ""]
      [] s \in {"Exa", "exa", "E"} ->
            [ok |-> TRUE, prefix |-> "Exa", err |-> "", errtext |-> ""]
      [] s \in {"Zetta", "zetta", "Z"} ->
            [ok |-> TRUE, prefix |-> "Zetta", err |-> "", errtext |-> ""]
      [] s \in {"Yotta", "yotta", "Y"} ->
            [ok |-> TRUE, prefix |-> "Yotta", err |-> "", errtext |-> ""]
      [] OTHER ->
            [ok |-> FALSE, prefix |-> "", err |-> "ExponentParsing",
             errtext |-> s]

\* an unwrap_or that falls back to the lowest prefix whatever the default
UnwrapOrYocto(r, default) == IF r.ok THEN r.prefix ELSE "Yocto"

\* Result::unwrap_or
UnwrapOr(r, default) == IF r.ok THEN r.prefix ELSE default

\* Ord::clamp
\* a clamp that forgets the lower end
ClampAbove(v, lo, hi) == IF v > hi THEN hi ELSE v

Clamp(v, lo, hi) == IF v < lo THEN lo ELSE IF v > hi THEN hi ELSE v

(***************************************************************************)
(* Base (src/src/base.rs)                                                  *)
(***************************************************************************)
Bases == {"B1000", "B1024"}

\* (a.log10() / 3f64).floor() and (a.log2() / 10f64).floor() as an f64 that
\* is NaN, an infinity or an integer v: the logarithm of a NaN or of a
\* negative number is NaN, of a zero -infinity, of +infinity +infinity.
\* floor(y / n) is floor(floor(y) / n) for an integer n >= 1, and \div
\* rounds down.  The logarithm of the f64 just below y, rounded to an f64,
\* is the rounded logarithm of y: the two logarithms differ by less than
\* 10^-16 and the f64 next to a logarithm of magnitude 1 or more are
\* 2 * 10^-16 or more apart.
Nearest(a) == IF a.k = "below" THEN [a EXCEPT !.k = "fin"] ELSE a

\* the quotient of the logarithm rounded up in place of .floor()
FloorLogDivRoundingUp(base, a) ==
    IF a.k = "nan" THEN [k |-> "nan", v |-> 0]
    ELSE IF a.k = "zero" THEN [k |-> "ninf", v |-> 0]
    ELSE IF a.s = -1 THEN [k |-> "nan", v |-> 0]
    ELSE IF a.k = "inf" THEN [k |-> "inf", v |-> 0]
    ELSE IF base = "B1000"
         THEN [k |-> "fin", v |-> (FloorLog10(Nearest(a)) \div 3) + 1]
         ELSE [k |-> "fin", v |-> (FloorLog2(Nearest(a)) \div 10) + 1]

FloorLogDiv(base, a) ==
    IF a.k = "nan" THEN [k |-> "nan", v |-> 0]
    ELSE IF a.k = "zero" THEN [k |-> "ninf", v |-> 0]
    ELSE IF a.s = -1 THEN [k |-> "nan", v |-> 0]
    ELSE IF a.k = "inf" THEN [k |-> "inf", v |-> 0]
    ELSE IF base = "B1000"
         THEN [k |-> "fin", v |-> FloorLog10(Nearest(a)) \div 3]
         ELSE [k |-> "fin", v |-> FloorLog2(Nearest(a)) \div 10]

\* the logarithm taken of x, not of x.abs()
FloorLogOverSigned(base, x) == FloorLogDiv(base, x)

\* (x.abs().log10() / 3f64).floor() and (x.abs().log2() / 10f64).floor()
FloorLogOver(base, x) == FloorLogDiv(base, F64Abs(x))

\* `f as i32` for an f64 f that is NaN, an infinity or an integer: the cast
\* saturates, and NaN gives 0
AsI32(f) ==
    IF f.k = "nan" THEN 0
    ELSE IF f.k = "inf" THEN I32Max
    ELSE IF f.k = "ninf" THEN I32Min
    ELSE Clamp(f.v, I32Min, I32Max)

\* x is the f64 just below a power of the radix of base other than 1
BelowPowerOfRadix(base, x) ==
    /\ x.k = "below"
    /\ x.c = 1
    /\ IF base = "B1000"
       THEN x.e2 = x.e5 /\ x.e2 % 3 = 0 /\ x.e2 # 0
       ELSE x.e5 = 0 /\ x.e2 % 10 = 0 /\ x.e2 # 0

\* x is the f64 just below 1 or just above -1
BelowOne(x) == x.k = "below" /\ x.c = 1 /\ x.e2 = 0 /\ x.e5 = 0

\* what `(x.abs().log10() / 3f64).floor()`, resp. log2 and 10f64, can be:
\* the precision of log10 and log2 is that of the platform, so that just
\* below a power radix^n the logarithm is n times 3, resp. 10, where it is
\* rounded to the nearest f64, and the f64 below that where it is not.
\* Just below 1 the logarithm is a negative f64 next to 0, whose quotient
\* has the floor -1.
FloorLogOutcomes(base, x) ==
    LET f == FloorLogOver(base, x)
    IN  IF BelowPowerOfRadix(base, x)
        THEN {f, [f EXCEPT !.v = @ - 1]}
        ELSE IF BelowOne(x) THEN {[f EXCEPT !.v = @ - 1]}
        ELSE {f}

\* integral_exponent_for without `if x == 0.0 { return 0; }`
IntegralExponentForAnyX(base, x) ==
    {[panic |-> r.panic, exp |-> r.val,
      log |-> IF base = "B1000" THEN "log10" ELSE "log2"] :
        r \in UNION {MulI32By3(AsI32(f)) : f \in FloorLogOutcomes(base, x)}}

\* Base::integral_exponent_for: the outcomes the build can produce, each
\* with what was computed of the logarithm ("none", "log10" or "log2")
IntegralExponentFor(base, x) ==
    IF x.k = "zero"
    THEN {[panic |-> FALSE, exp |-> 0, log |-> "none"]}
    ELSE {[panic |-> r.panic, exp |-> r.val,
           log |-> IF base = "B1000" THEN "log10" ELSE "log2"] :
            r \in UNION {MulI32By3(AsI32(f)) :
                            f \in FloorLogOutcomes(base, x)}}

\* a factor that is the radix to the power exponent, not exponent / 3
PowOfExponent(base, exponent) ==
    IF base = "B1000"
    THEN [k |-> "fin", s |-> 1, c |-> 1, e2 |-> 3 * exponent,
          e5 |-> 3 * exponent]
    ELSE [k |-> "fin", s |-> 1, c |-> 1, e2 |-> 10 * exponent, e5 |-> 0]

\* Base::pow for the exponent of a prefix (a multiple of 3):
\* 1000^(exponent/3) = 10^exponent and 1024^(exponent/3) = 2^(10*exponent/3)
Pow(base, exponent) ==
    IF base = "B1000"
    THEN [k |-> "fin", s |-> 1, c |-> 1, e2 |-> exponent, e5 |-> exponent]
    ELSE [k |-> "fin", s |-> 1, c |-> 1, e2 |-> 10 * (exponent \div 3),
          e5 |-> 0]

\* a symbol table that writes Micro as "u"
PrefixSymbolAscii(p) ==
    CASE p = "Yocto" -> "y"
      [] p = "Zepto" -> "z"
      [] p = "Atto"  -> "a"
      [] p = "Femto" -> "f"
      [] p = "Pico"  -> "p"
      [] p = "Nano"  -> "n"
      [] p = "Micro" -> "u"
      [] p = "Milli" -> "m"
      [] p = "Unit"  -> ""
      [] p = "Kilo"  -> "k"
      [] p = "Mega"  -> "M"
      [] p = "Giga"  -> "G"
      [] p = "Tera"  -> "T"
      [] p = "Peta"  -> "P"
      [] p = "Exa"   -> "E"
      [] p = "Zetta" -> "Z"
      [] p = "Yotta" -> "Y"

\* impl From<&Prefix> for &str: the symbol Display writes
PrefixSymbol(p) ==
    CASE p = "Yocto" -> "y"
      [] p = "Zepto" -> "z"
      [] p = "Atto"  -> "a"
      [] p = "Femto" -> "f"
      [] p = "Pico"  -> "p"
      [] p = "Nano"  -> "n"
      [] p = "Micro" -> "µ"
      [] p = "Milli" -> "m"
      [] p = "Unit"  -> ""
      [] p = "Kilo"  -> "k"
      [] p = "Mega"  -> "M"
      [] p = "Giga"  -> "G"
      [] p = "Tera"  -> "T"
      [] p = "Peta"  -> "P"
      [] p = "Exa"   -> "E"
      [] p = "Zetta" -> "Z"
      [] p = "Yotta" -> "Y"

(***************************************************************************)
(* Constraint: the variants Value::closest_prefix_for matches on.  list    *)
(* is the Vec<Prefix> of Custom and <<>> for the other variants.           *)
(***************************************************************************)
Constraint(tag, list) == [tag |-> tag, list |-> list]

(***************************************************************************)
(* Value (src/src/value.rs)                                                *)
(***************************************************************************)
\* take_while(..).next() in place of take_while(..).last(): at most one
\* prefix is taken
TakeWhileLenOne(list, exponent) ==
    IF Len(list) > 0 /\ PrefixExponent(list[1]) <= exponent THEN 1 ELSE 0

\* the length of  list.iter().take_while(|p| p as i32 <= exponent)
TakeWhileLen(list, exponent) ==
    CHOOSE n \in 0..Len(list) :
        /\ \A i \in 1..n : PrefixExponent(list[i]) <= exponent
        /\ n < Len(list) => PrefixExponent(list[n + 1]) > exponent

\* the Custom branch without the early return of the smallest prefix
ClosestPrefixForCustomToTheEnd(exponent, allowed_prefixes) ==
    LET n == TakeWhileLen(allowed_prefixes, exponent)
    IN  IF allowed_prefixes = <<>>
        THEN [panic |-> TRUE, prefix |-> "Unit"]
        ELSE [panic |-> FALSE,
              prefix |-> IF n = 0 THEN "Unit" ELSE allowed_prefixes[n]]

\* closest_prefix_for with the line `if allowed_prefixes.is_empty() { panic! }`
\* replaced by a fall back to Unit
ClosestPrefixForCustomLenient(exponent, allowed_prefixes) ==
    IF allowed_prefixes = <<>>
    THEN [panic |-> FALSE, prefix |-> "Unit"]
    ELSE IF exponent < PrefixExponent(allowed_prefixes[1])
    THEN [panic |-> FALSE, prefix |-> allowed_prefixes[1]]
    ELSE [panic |-> FALSE,
          prefix |-> allowed_prefixes[TakeWhileLen(allowed_prefixes, exponent)]]

\* Value::closest_prefix_for, the arm Constraint::Custom(allowed_prefixes)
ClosestPrefixForCustom(exponent, allowed_prefixes) ==
    LET smallest_prefix == allowed_prefixes[1]
        n == TakeWhileLen(allowed_prefixes, exponent)
    IN  IF allowed_prefixes = <<>>
        THEN [panic |-> TRUE, prefix |-> "Unit"]
        ELSE IF exponent < PrefixExponent(smallest_prefix)
        THEN [panic |-> FALSE, prefix |-> smallest_prefix]
        ELSE [panic |-> FALSE,
              prefix |-> IF n = 0 THEN "Unit" ELSE allowed_prefixes[n]]

\* closest_prefix_for with every constraint treated as Constraint::None
ClosestPrefixForUnconstrained(exponent, constraint) ==
    [panic |-> constraint.tag = "Custom" /\ constraint.list = <<>>,
     prefix |-> UnwrapOr(PrefixTryFrom(Clamp(exponent,
                    PrefixExponent("Yocto"), PrefixExponent("Yotta"))),
                    "Unit")]

\* closest_prefix_for without the clamps: Prefix::try_from(exponent) alone
ClosestPrefixForUnclamped(exponent, constraint) ==
    IF constraint.tag = "Custom"
    THEN ClosestPrefixForCustom(exponent, constraint.list)
    ELSE [panic |-> FALSE,
          prefix |-> IF constraint.tag = "UnitOnly" THEN "Unit"
                     ELSE UnwrapOr(PrefixTryFrom(exponent), "Unit")]

\* Value::closest_prefix_for
ClosestPrefixFor(exponent, constraint) ==
    CASE constraint.tag = "None" ->
            [panic |-> FALSE,
             prefix |-> UnwrapOr(PrefixTryFrom(Clamp(exponent,
                            PrefixExponent("Yocto"), PrefixExponent("Yotta"))),
                            "Unit")]
      [] constraint.tag = "UnitOnly" ->
            [panic |-> FALSE, prefix |-> "Unit"]
      [] constraint.tag = "UnitAndAbove" ->
            [panic |-> FALSE,
             prefix |-> UnwrapOr(PrefixTryFrom(Clamp(exponent,
                            PrefixExponent("Unit"), PrefixExponent("Yotta"))),
                            "Unit")]
      [] constraint.tag = "UnitAndBelow" ->
            [panic |-> FALSE,
             prefix |-> UnwrapOr(PrefixTryFrom(Clamp(exponent,
                            PrefixExponent("Yocto"), PrefixExponent("Unit"))),
                            "Unit")]
      [] constraint.tag = "Custom" ->
            ClosestPrefixForCustom(exponent, constraint.list)

(***************************************************************************)
(* Allowed (src/src/prefix/allowed.rs)                                     *)
(***************************************************************************)
\* a value of the enum Allowed; list is the Vec of Custom
Allowed(tag, list) == [tag |-> tag, list |-> list]

\* Result::ok and Option: Some(prefix) or None
Some(prefix) == [some |-> TRUE, prefix |-> prefix]

None == [some |-> FALSE, prefix |-> ""]

Ok(r) == IF r.ok THEN Some(r.prefix) ELSE None

\* a search that finds nothing for an exponent outside the allowed range,
\* in place of clamping it
ClosestPrefixBelowUnclamped(allowed, exponent) ==
    CASE allowed.tag = "All" ->
            IF exponent < -24 \/ exponent > 24 THEN None
            ELSE Ok(PrefixTryFrom(exponent))
      [] allowed.tag = "UnitAndAbove" ->
            IF exponent < 0 \/ exponent > 24 THEN None
            ELSE Ok(PrefixTryFrom(exponent))
      [] allowed.tag = "UnitAndBelow" ->
            IF exponent < -24 \/ exponent > 0 THEN None
            ELSE Ok(PrefixTryFrom(exponent))
      [] allowed.tag = "Custom" ->
            IF allowed.list = <<>> THEN None
            ELSE IF TakeWhileLen(allowed.list, exponent) = 0 THEN None
            ELSE Some(allowed.list[TakeWhileLen(allowed.list, exponent)])

\* Allowed::closest_prefix_below
ClosestPrefixBelow(allowed, exponent) ==
    CASE allowed.tag = "All" ->
            Ok(PrefixTryFrom(Clamp(exponent, PrefixExponent("Yocto"),
                                   PrefixExponent("Yotta"))))
      [] allowed.tag = "UnitAndAbove" ->
            Ok(PrefixTryFrom(Clamp(exponent, PrefixExponent("Unit"),
                                   PrefixExponent("Yotta"))))
      [] allowed.tag = "UnitAndBelow" ->
            Ok(PrefixTryFrom(Clamp(exponent, PrefixExponent("Yocto"),
                                   PrefixExponent("Unit"))))
      [] allowed.tag = "Custom" ->
            LET n == TakeWhileLen(allowed.list, exponent)
            IN  IF allowed.list = <<>> THEN None
                ELSE IF exponent < PrefixExponent(allowed.list[1])
                THEN Some(allowed.list[1])
                ELSE IF n = 0 THEN None ELSE Some(allowed.list[n])

NoValue == [mantissa |-> NaN, prefix |-> "", base |-> ""]

\* new_with dividing by base.pow(exponent), the exponent of x, in place of
\* base.pow(prefix.exponent())
NewWithFromScaledByExponent(e, x, base, prefix_constraint) ==
    LET p == ClosestPrefixFor(e.exp, prefix_constraint)
    IN  IF e.panic
        THEN [panic |-> TRUE, why |-> "overflow", value |-> NoValue]
        ELSE IF p.panic
        THEN [panic |-> TRUE, why |-> "empty", value |-> NoValue]
        ELSE [panic |-> FALSE, why |-> "",
              value |-> [mantissa |-> F64Div(x, Pow(base, Clamp(e.exp,
                            PrefixExponent("Yocto"), PrefixExponent("Yotta")))),
                         prefix |-> p.prefix,
                         base |-> base]]

\* Value::new_with, from the outcome e of integral_exponent_for on
NewWithFrom(e, x, base, prefix_constraint) ==
    LET p == ClosestPrefixFor(e.exp, prefix_constraint)
    IN  IF e.panic
        THEN [panic |-> TRUE, why |-> "overflow", value |-> NoValue]
        ELSE IF p.panic
        THEN [panic |-> TRUE, why |-> "empty", value |-> NoValue]
        ELSE [panic |-> FALSE, why |-> "",
              value |-> [mantissa |->
                            F64Div(x, Pow(base, PrefixExponent(p.prefix))),
                         prefix |-> p.prefix,
                         base |-> base]]

\* Value::new_with: the outcomes the build can produce
NewWith(x, base, prefix_constraint) ==
    {NewWithFrom(e, x, base, prefix_constraint) :
        e \in IntegralExponentFor(base, x)}

\* the types impl_into_f64_lossless! and impl_into_f64_lossy! are applied to
LosslessTypes == {"u8", "i8", "u16", "i16", "u32", "i32", "f32", "f64"}

LossyTypes == {"u64", "i64", "usize", "isize"}

\* a number of type ty: an integer n, the largest ("max") or the smallest
\* ("min") number of a 64-bit type, or a float x
IntNumber(ty, n) == [ty |-> ty, k |-> "int", n |-> n, x |-> NaN]

EndNumber(ty, k) == [ty |-> ty, k |-> k, n |-> 0, x |-> NaN]

FloatNumber(ty, x) == [ty |-> ty, k |-> "float", n |-> 0, x |-> x]

NoNumber == [ty |-> "", k |-> "", n |-> 0, x |-> NaN]

\* IntoF64::into_f64: `self.into()` for the lossless types, which is exact,
\* and `self as f64` for the lossy ones, which rounds to the nearest f64:
\* u64::MAX = 2^64 - 1 to 2^64, i64::MAX = 2^63 - 1 to 2^63, and i64::MIN =
\* -2^63 is exact (usize and isize have 64 bits)
IntoF64(number) ==
    CASE number.k = "float" -> number.x
      [] number.k = "int" ->
            IF number.n = 0 THEN Zero(1)
            ELSE IF number.n > 0 THEN Fin(1, number.n, 0, 0)
            ELSE Fin(-1, -number.n, 0, 0)
      [] number.k = "max" ->
            IF number.ty \in {"u64", "usize"} THEN Fin(1, 1, 64, 0)
            ELSE Fin(1, 1, 63, 0)
      [] number.k = "min" -> Fin(-1, 1, 63, 0)

\* Value::new for the base B1024
NewWithBinaryBase(x) == NewWith(IntoF64(x), "B1024", Constraint("None", <<>>))

\* Value::new; the x.into_f64() of new_with is made here, NewWith taking
\* the f64
New(x) == NewWith(IntoF64(x), "B1000", Constraint("None", <<>>))

\* impl From<$t> for Value
From(x) == New(x)

\* impl From<&$t> for Value
FromRef(x) == New(x)

\* f64::signum: 1.0 for a positive number, +0.0 and INFINITY, -1.0 for a
\* negative number, -0.0 and NEG_INFINITY, NaN for NaN
F64Signum(x) == IF x.k = "nan" THEN NaN ELSE Fin(x.s, 1, 0, 0)

\* a sign that is 0 for a mantissa that is 0
SignumOrZero(v) ==
    IF v.mantissa.k = "zero" THEN v.mantissa ELSE F64Signum(v.mantissa)

\* Value::signum
Signum(v) == F64Signum(v.mantissa)

\* to_f64 dividing by the factor in place of multiplying
ToF64Dividing(v) == F64Div(v.mantissa, Pow(v.base, PrefixExponent(v.prefix)))

\* Value::to_f64
ToF64(v) == F64Mul(v.mantissa, Pow(v.base, PrefixExponent(v.prefix)))

(***************************************************************************)
(* format_value! (src/src/format.rs) and the helpers (src/src/helpers.rs). *)
(* A rendered text is kept as its parts: the mantissa text (the mantissa   *)
(* and how it is formatted), the separating text, the prefix symbol, the   *)
(* binary infix and the unit.                                              *)
(***************************************************************************)
\* the infix with the test `prefix == Prefix::Unit` left out
BinaryInfixAnyPrefix(v) == IF v.base = "B1000" THEN "" ELSE "i"

\* format_value!: the text after the prefix symbol
BinaryInfix(v) ==
    IF v.base = "B1000" THEN ""
    ELSE IF v.prefix = "Unit" THEN "" ELSE "i"

\* format_value! whose no_unit arm writes the grouped mantissa and nothing
\* else
FormatValueBare(v, fmt_str, arm, separator) ==
    [mantissa |-> v.mantissa,
     fmt      |-> fmt_str,
     sep      |-> IF arm = "fmt" THEN "" ELSE separator,
     space    |-> IF arm = "no_unit" THEN "" ELSE " ",
     symbol   |-> IF arm = "no_unit" THEN "" ELSE PrefixSymbol(v.prefix),
     infix    |-> IF arm = "no_unit" THEN "" ELSE BinaryInfix(v),
     unit     |-> ""]

\* format_value! whose three arms all leave the space out for Prefix::Unit
FormatValueNoSpaceForUnit(v, fmt_str, arm, separator) ==
    [mantissa |-> v.mantissa,
     fmt      |-> fmt_str,
     sep      |-> IF arm = "fmt" THEN "" ELSE separator,
     space    |-> IF v.prefix = "Unit" THEN "" ELSE " ",
     symbol   |-> PrefixSymbol(v.prefix),
     infix    |-> BinaryInfix(v),
     unit     |-> ""]

\* format_value!: arm is "fmt" (value, format), "groupings" (value, format,
\* groupings: separator) or "no_unit" (value, format, groupings: separator,
\* no_unit)
FormatValue(v, fmt_str, arm, separator) ==
    [mantissa |-> v.mantissa,
     fmt      |-> fmt_str,
     sep      |-> IF arm = "fmt" THEN "" ELSE separator,
     space    |-> IF arm = "no_unit"
                  THEN (IF v.prefix = "Unit" THEN "" ELSE " ")
                  ELSE " ",
     symbol   |-> PrefixSymbol(v.prefix),
     infix    |-> BinaryInfix(v),
     unit     |-> ""]

\* a Display that writes the infix of format_value! after the symbol
DisplayWithInfix(v) == FormatValue(v, "{}", "no_unit", "")

\* impl fmt::Display for Value: "{}" of the mantissa for Prefix::Unit,
\* "{} {}" of the mantissa and the prefix otherwise
Display(v) ==
    [mantissa |-> v.mantissa,
     fmt      |-> "{}",
     sep      |-> "",
     space    |-> IF v.prefix = "Unit" THEN "" ELSE " ",
     symbol   |-> IF v.prefix = "Unit" THEN "" ELSE PrefixSymbol(v.prefix),
     infix    |-> "",
     unit     |-> ""]

\* every helper instantiated with constraint: None
HelperUnconstrained ==
    [h \in {"number_", "seconds", "seconds3", "bytes", "bytes_", "bytes1",
            "bytes2", "bibytes", "bibytes1", "bibytes2"} |->
        [base |-> "B1000", constraint |-> "None", mantissa_fmt |-> "{}",
         arm |-> "fmt", groupings |-> "", unit |-> ""]]

\* the scale_fn! instantiations
Helper ==
    [number_  |-> [base |-> "B1000", constraint |-> "UnitOnly",
                   mantissa_fmt |-> "{}", arm |-> "no_unit",
                   groupings |-> "_", unit |-> ""],
     seconds  |-> [base |-> "B1000", constraint |-> "UnitAndBelow",
                   mantissa_fmt |-> "{}", arm |-> "fmt",
                   groupings |-> "", unit |-> "s"],
     seconds3 |-> [base |-> "B1000", constraint |-> "UnitAndBelow",
                   mantissa_fmt |-> "{:.3}", arm |-> "fmt",
                   groupings |-> "", unit |-> "s"],
     bytes    |-> [base |-> "B1000", constraint |-> "UnitAndAbove",
                   mantissa_fmt |-> "{}", arm |-> "fmt",
                   groupings |-> "", unit |-> "B"],
     bytes_   |-> [base |-> "B1000", constraint |-> "UnitOnly",
                   mantissa_fmt |-> "{}", arm |-> "groupings",
                   groupings |-> "_", unit |-> "B"],
     bytes1   |-> [base |-> "B1000", constraint |-> "UnitAndAbove",
                   mantissa_fmt |-> "{:.1}", arm |-> "fmt",
                   groupings |-> "", unit |-> "B"],
     bytes2   |-> [base |-> "B1000", constraint |-> "UnitAndAbove",
                   mantissa_fmt |-> "{:.2}", arm |-> "fmt",
                   groupings |-> "", unit |-> "B"],
     bibytes  |-> [base |-> "B1024", constraint |-> "UnitAndAbove",
                   mantissa_fmt |-> "{}", arm |-> "fmt",
                   groupings |-> "", unit |-> "B"],
     bibytes1 |-> [base |-> "B1024", constraint |-> "UnitAndAbove",
                   mantissa_fmt |-> "{:.1}", arm |-> "fmt",
                   groupings |-> "", unit |-> "B"],
     bibytes2 |-> [base |-> "B1024", constraint |-> "UnitAndAbove",
                   mantissa_fmt |-> "{:.2}", arm |-> "fmt",
                   groupings |-> "", unit |-> "B"]]

Helpers == DOMAIN Helper

NoText == [mantissa |-> NaN, fmt |-> "", sep |-> "", space |-> "",
           symbol |-> "", infix |-> "", unit |-> ""]

\* the function scale_fn! defines: the Value it builds and the text it
\* returns, from the outcome r of Value::new_with on
ScaleFnFrom(h, r) ==
    IF r.panic
    THEN [panic |-> TRUE, why |-> r.why, value |-> NoValue, text |-> NoText]
    ELSE [panic |-> FALSE, why |-> "", value |-> r.value,
          text |-> [FormatValue(r.value, Helper[h].mantissa_fmt,
                                Helper[h].arm, Helper[h].groupings)
                        EXCEPT !.unit = Helper[h].unit]]

ScaleFn(h, x) ==
    {ScaleFnFrom(h, r) :
        r \in NewWith(x, Helper[h].base,
                      Constraint(Helper[h].constraint, <<>>))}

(***************************************************************************)
(* separated_float (src/src/format.rs).  A text is a sequence of           *)
(* characters, each a string of length one.                                *)
(***************************************************************************)
AsciiDigits == <<"0", "1", "2", "3", "4", "5", "6", "7", "8", "9">>

\* char::is_ascii_digit
IsAsciiDigit(ch) == \E i \in 1..Len(AsciiDigits) : AsciiDigits[i] = ch

\* .chars().rev()
Reverse(t) == [i \in 1..Len(t) |-> t[Len(t) + 1 - i]]

\* a separator before every digit
SeparatorDueFromStart(pos) == pos % 3 = 0

\* the test made on the count with the digit at hand included
SeparatorDueOneIndexed(pos) == pos + 1 > 1 /\ (pos + 1) % 3 = 0

\* `pos > 1 && pos % 3 == 0`
SeparatorDue(pos) == pos > 1 /\ pos % 3 = 0

RECURSIVE ScanCountingAll(_, _, _, _, _)
\* the loop with `pos += 1` moved out of `if ch.is_ascii_digit()`
ScanCountingAll(chars, separator, i, pos, output) ==
    IF i > Len(chars) THEN output
    ELSE ScanCountingAll(chars, separator, i + 1, pos + 1,
            IF IsAsciiDigit(chars[i]) /\ SeparatorDue(pos)
            THEN output \o <<separator, chars[i]>>
            ELSE Append(output, chars[i]))

RECURSIVE Scan(_, _, _, _, _)
\* the loop of separate_thousands_backward and separate_thousands_forward
\* from the i-th character on: pos digits were seen, output was pushed
Scan(chars, separator, i, pos, output) ==
    IF i > Len(chars) THEN output
    ELSE IF IsAsciiDigit(chars[i])
    THEN Scan(chars, separator, i + 1, pos + 1,
              IF SeparatorDue(pos)
              THEN output \o <<separator, chars[i]>>
              ELSE Append(output, chars[i]))
    ELSE Scan(chars, separator, i + 1, pos, Append(output, chars[i]))

\* separate_thousands_forward
SeparateThousandsForward(input, separator) ==
    Scan(input, separator, 1, 0, <<>>)

\* the integer part scanned from the left like the fractional part
SeparateThousandsBackwardFromLeft(input, separator) ==
    Scan(input, separator, 1, 0, <<>>)

\* separate_thousands_backward
SeparateThousandsBackward(input, separator) ==
    Reverse(Scan(Reverse(input), separator, 1, 0, <<>>))

\* input.find('.'), or input.len() when there is none, as a 1-based index
FindPoint(input) ==
    IF \E i \in 1..Len(input) : input[i] = "."
    THEN CHOOSE i \in 1..Len(input) :
            input[i] = "." /\ \A j \in 1..(i - 1) : input[j] # "."
    ELSE Len(input) + 1

\* separated_float
SeparatedFloat(input, separator) ==
    LET idx == FindPoint(input)
        int_part == SubSeq(input, 1, idx - 1)
        frac_part == SubSeq(input, idx, Len(input))
    IN  SeparateThousandsBackward(int_part, separator)
        \o SeparateThousandsForward(frac_part, separator)

(***************************************************************************)
(* The calls a client makes.  Inputs are the f64 values m * 1000^k and     *)
(* m * 1024^k on and next to the scale's grid, both signs, the two ends of *)
(* the f64 range, signed zeros, infinities and NaN.                        *)
(***************************************************************************)
Signs == {1, -1}

GridInputs ==
    {Fin(s, m, 3 * k, 3 * k) :
        s \in Signs, m \in {1, 15, 999}, k \in (-MaxK)..MaxK}
    \cup {Fin(s, m, 10 * k, 0) :
        s \in Signs, m \in {1, 1023}, k \in (-MaxK)..MaxK}

ExtremeInputs ==
    {Fin(s, 1, e, 0) : s \in Signs, e \in {F64MaxExp - 1, F64MinExp}}

\* the f64 just below the powers of 1000 and of 1024
BoundaryInputs ==
    {JustBelow(Fin(s, 1, 3 * k, 3 * k)) : s \in Signs, k \in (-MaxK)..MaxK}
    \cup {JustBelow(Fin(s, 1, 10 * k, 0)) : s \in Signs, k \in (-MaxK)..MaxK}

SpecialInputs == {NaN} \cup {Inf(s) : s \in Signs} \cup {Zero(s) : s \in Signs}

\* the sequences of up to n elements of S
RECURSIVE ListsUpTo(_, _)
ListsUpTo(S, n) ==
    IF n = 0 THEN {<<>>}
    ELSE LET shorter == ListsUpTo(S, n - 1)
         IN  shorter \cup {Append(l, p) : l \in shorter, p \in S}

\* the numbers of the crate's examples: 5.4e4, -5.4e-4, 1e-28, 0.015, 1234,
\* 16, 16 * 1024 and 16 * 1024 * 1024
ExampleInputs ==
    {Fin(1, 54, 3, 3), Fin(-1, 54, -5, -5), Fin(1, 1, -28, -28),
     Fin(1, 15, -3, -3), Fin(1, 1234, 0, 0), Fin(1, 16, 0, 0),
     Fin(1, 16, 10, 0), Fin(1, 16, 20, 0)}

\* the mantissas of the Values written as struct literals
LiteralMantissas ==
    {Fin(1, 15, -1, -1), Fin(-1, 1234, 0, 0), Zero(1), Zero(-1), NaN,
     Inf(1), Inf(-1)}

\* the digits d, d+1, ... (mod 10), n of them
DigitRun(d, n) == [i \in 1..n |-> AsciiDigits[((d + i - 1) % 10) + 1]]

\* digits, optionally followed by '.' and digits
PlainTexts ==
    {DigitRun(1, n) : n \in 1..MaxDigits}
    \cup {DigitRun(1, n) \o <<".">> \o DigitRun(d, m) :
            n \in 1..MaxDigits, m \in 1..MaxDigits, d \in {1, 5}}

\* what a numeric format writes: padding, sign, digits, '.', digits, padding
NumericTexts ==
    {l \o g \o t \o r :
        l \in {<<>>, <<" ">>, <<" ", " ">>}, g \in {<<>>, <<"-">>},
        t \in PlainTexts, r \in {<<>>, <<" ">>}}

\* the texts of the crate's tests with characters that are not digits
ExampleTexts ==
    {<<"-", "-">> \o DigitRun(1, 7) \o <<".">> \o DigitRun(1, 7)
        \o <<"+", "+">>,
     <<" ", " ">> \o DigitRun(1, 6) \o <<".", ".">>}

\* every text of digits, points, signs and spaces
AnyTexts == ListsUpTo({"7", ".", "-", " "}, MaxTextLen)

Texts == NumericTexts \cup ExampleTexts \cup AnyTexts

Separators == {"_", ","}

\* the strings handed to Prefix::from_str: the three spellings of each arm,
\* and strings no arm has
Spellings ==
    {"Yocto", "yocto", "y", "Zepto", "zepto", "z", "Atto", "atto", "a",
     "Femto", "femto", "f", "Pico", "pico", "p", "Nano", "nano", "n",
     "Micro", "micro", "µ", "Milli", "milli", "m", "Kilo", "kilo", "k",
     "Mega", "mega", "M", "Giga", "giga", "G", "Tera", "tera", "T",
     "Peta", "peta", "P", "Exa", "exa", "E", "Zetta", "zetta", "Z",
     "Yotta", "yotta", "Y"}

OtherStrings ==
    {"", "Unit", "unit", "KILO", "kILO", "K", "g", "t", "e", "A", "F", "N",
     "u", "mu", "da", "h", "d", "c", "Ki", "ki", "kilo ", " k", "k ", "kk",
     "3", "1e3", "Kibi", "Deca", "Hecto"}

Strings == Spellings \cup OtherStrings

\* the forms of format_value! and the formats handed to it
Arms == {"fmt", "groupings", "no_unit"}

MantissaFormats == {"{}", "{:.1}"}

Inputs ==
    GridInputs \cup BoundaryInputs \cup ExtremeInputs \cup ExampleInputs
    \cup SpecialInputs

UnsignedTypes == {"u8", "u16", "u32", "u64", "usize"}

SignedTypes == {"i8", "i16", "i32", "i64", "isize"}

\* the f32 handed to Value::new: 1.5, -0.25, the zeros, NaN, the infinities,
\* the smallest normal and subnormal f32 and 2^127
F32Inputs ==
    {Fin(1, 3, -1, 0), Fin(-1, 1, -2, 0), Zero(1), Zero(-1), NaN, Inf(1),
     Inf(-1), Fin(1, 1, -126, 0), Fin(1, 1, -149, 0), Fin(1, 1, 127, 0)}

\* the numbers handed to Value::new and Value::from, of the twelve types
Numbers ==
    {IntNumber(ty, n) : ty \in UnsignedTypes \cup SignedTypes,
                        n \in {0, 1, 15, 100, 127}}
    \cup {IntNumber(ty, n) : ty \in SignedTypes, n \in {-1, -128}}
    \cup {IntNumber(ty, n) : ty \in {"u16", "u32", "u64", "usize"},
                             n \in {1024, 65535}}
    \cup {IntNumber(ty, n) : ty \in {"u32", "i32", "u64", "i64", "usize",
                                     "isize"},
                             n \in {10000000, 4 * 1024 * 1024}}
    \cup {EndNumber(ty, "max") : ty \in LossyTypes}
    \cup {EndNumber(ty, "min") : ty \in {"i64", "isize"}}
    \cup {FloatNumber("f32", x) : x \in F32Inputs}
    \cup {FloatNumber("f64", x) : x \in Inputs \cup {Fin(-1, 15, 27, 27),
                                                   Fin(1, 53, 4, 4)}}

\* the prefixes Custom lists are drawn from
CustomPool == {"Yocto", "Milli", "Unit", "Kilo"}

Constraints ==
    {Constraint(t, <<>>) :
        t \in {"None", "UnitOnly", "UnitAndAbove", "UnitAndBelow"}}
    \cup {Constraint("Custom", l) : l \in ListsUpTo(CustomPool, MaxCustomLen)}

\* the values of Allowed handed to closest_prefix_below
Alloweds ==
    {Allowed(t, <<>>) : t \in {"All", "UnitAndAbove", "UnitAndBelow"}}
    \cup {Allowed("Custom", l) : l \in ListsUpTo(CustomPool, MaxCustomLen)}

\* exponents handed to closest_prefix_for directly: a range around the
\* scale, the value integral_exponent_for yields for an infinity when the
\* multiplication wraps, and the multiples of 3 furthest from the scale
Exponents ==
    ((-MaxExp)..MaxExp) \cup {I32Max - 2, I32Max - 1, -(I32Max - 1), I32Min}

VARIABLES
    op,      \* the call just made ("init" before any)
    arg,     \* its arguments
    ret,     \* what it returned, or that it panicked
    value    \* the Value built by new_with or a helper

vars == <<op, arg, ret, value>>

NoArg == [x |-> NaN, base |-> "", constraint |-> Constraint("", <<>>),
          exponent |-> 0, helper |-> "", fmt |-> "", arm |-> "",
          separator |-> "", input |-> <<>>, prefix |-> "", s |-> "",
          number |-> NoNumber, allowed |-> Allowed("", <<>>)]

NoRet == [panic |-> FALSE, why |-> "", exp |-> 0, log |-> "",
          prefix |-> "", num |-> NaN, text |-> NoText, str |-> <<>>,
          ok |-> FALSE, err |-> "", errtext |-> "", symbol |-> ""]

Init ==
    /\ op = "init"
    /\ arg = NoArg
    /\ ret = NoRet
    /\ value = NoValue

\* base.integral_exponent_for(x)
CallIntegralExponentFor ==
    /\ op = "init"
    /\ \E base \in Bases, x \in Inputs :
        \E r \in IntegralExponentFor(base, x) :
            /\ op' = "integral_exponent_for"
            /\ arg' = [NoArg EXCEPT !.x = x, !.base = base]
            /\ ret' = [NoRet EXCEPT !.panic = r.panic,
                                    !.why = IF r.panic THEN "overflow" ELSE "",
                                    !.exp = r.exp, !.log = r.log]
            /\ UNCHANGED value

\* Value::closest_prefix_for(exponent, constraint)
CallClosestPrefixFor ==
    /\ op = "init"
    /\ \E exponent \in Exponents, constraint \in Constraints :
        LET r == ClosestPrefixFor(exponent, constraint)
        IN  /\ op' = "closest_prefix_for"
            /\ arg' = [NoArg EXCEPT !.exponent = exponent,
                                    !.constraint = constraint]
            /\ ret' = [NoRet EXCEPT !.panic = r.panic,
                                    !.why = IF r.panic THEN "empty" ELSE "",
                                    !.prefix = r.prefix]
            /\ UNCHANGED value

\* Value::new_with(x, base, prefix_constraint)
CallNewWith ==
    /\ op = "init"
    /\ \E base \in Bases, x \in Inputs :
        \E e \in IntegralExponentFor(base, x) :
            \E constraint \in Constraints :
                LET r == NewWithFrom(e, x, base, constraint)
                IN  /\ op' = "new_with"
                    /\ arg' = [NoArg EXCEPT !.x = x, !.base = base,
                                            !.constraint = constraint]
                    /\ ret' = [NoRet EXCEPT !.panic = r.panic, !.why = r.why]
                    /\ value' = r.value

\* value.to_f64() on the Value new_with returned
CallToF64 ==
    /\ op = "new_with"
    /\ ~ret.panic
    /\ op' = "to_f64"
    /\ ret' = [NoRet EXCEPT !.num = ToF64(value)]
    /\ UNCHANGED <<arg, value>>

\* Value::new(x)
CallNew ==
    /\ op = "init"
    /\ \E x \in Numbers :
        \E r \in New(x) :
            /\ op' = "new"
            /\ arg' = [NoArg EXCEPT !.number = x]
            /\ ret' = [NoRet EXCEPT !.panic = r.panic, !.why = r.why]
            /\ value' = r.value

\* Value::from(x)
CallFrom ==
    /\ op = "init"
    /\ \E x \in Numbers :
        \E r \in From(x) :
            /\ op' = "from"
            /\ arg' = [NoArg EXCEPT !.number = x]
            /\ ret' = [NoRet EXCEPT !.panic = r.panic, !.why = r.why]
            /\ value' = r.value

\* Value::from(&x)
CallFromRef ==
    /\ op = "init"
    /\ \E x \in Numbers :
        \E r \in FromRef(x) :
            /\ op' = "from_ref"
            /\ arg' = [NoArg EXCEPT !.number = x]
            /\ ret' = [NoRet EXCEPT !.panic = r.panic, !.why = r.why]
            /\ value' = r.value

\* value.signum() on the Value new_with returned or on a literal
CallSignum ==
    /\ op \in {"new_with", "value"}
    /\ ~ret.panic
    /\ op' = "signum"
    /\ ret' = [NoRet EXCEPT !.num = Signum(value)]
    /\ UNCHANGED <<arg, value>>

\* a struct literal Value { mantissa, prefix, base }: the fields are public
MakeValue ==
    /\ op = "init"
    /\ \E mantissa \in LiteralMantissas, prefix \in Prefixes, base \in Bases :
        /\ op' = "value"
        /\ value' = [mantissa |-> mantissa, prefix |-> prefix, base |-> base]
        /\ UNCHANGED <<arg, ret>>

\* format_value!(value, fmt), format_value!(value, fmt, groupings: sep) and
\* format_value!(value, fmt, groupings: sep, no_unit) on a Value
CallFormatValue ==
    /\ op = "value"
    /\ \E arm \in Arms, fmt \in MantissaFormats :
        /\ op' = "format_value"
        /\ arg' = [NoArg EXCEPT !.fmt = fmt, !.arm = arm,
                                !.separator = IF arm = "fmt" THEN "" ELSE "_"]
        /\ ret' = [NoRet EXCEPT !.text =
                        FormatValue(value, fmt, arm,
                                    IF arm = "fmt" THEN "" ELSE "_")]
        /\ UNCHANGED value

\* format!("{}", value) on a literal or on the Value that Value::new or
\* Value::from returned
CallDisplay ==
    /\ op \in {"value", "new", "from"}
    /\ ~ret.panic
    /\ op' = "display"
    /\ ret' = [NoRet EXCEPT !.text = Display(value)]
    /\ UNCHANGED <<arg, value>>

\* allowed.closest_prefix_below(exponent)
CallClosestPrefixBelow ==
    /\ op = "init"
    /\ \E allowed \in Alloweds, exponent \in Exponents :
        LET r == ClosestPrefixBelow(allowed, exponent)
        IN  /\ op' = "closest_prefix_below"
            /\ arg' = [NoArg EXCEPT !.allowed = allowed,
                                    !.exponent = exponent]
            /\ ret' = [NoRet EXCEPT !.ok = r.some, !.prefix = r.prefix]
            /\ UNCHANGED value

\* separated_float(input, separator)
CallSeparatedFloat ==
    /\ op = "init"
    /\ \E input \in Texts, separator \in Separators :
        /\ op' = "separated_float"
        /\ arg' = [NoArg EXCEPT !.input = input, !.separator = separator]
        /\ ret' = [NoRet EXCEPT !.str = SeparatedFloat(input, separator)]
        /\ UNCHANGED value

\* base.pow(exponent) for the exponent of a prefix
CallPow ==
    /\ op = "init"
    /\ \E base \in Bases, prefix \in Prefixes :
        /\ op' = "pow"
        /\ arg' = [NoArg EXCEPT !.base = base,
                                !.exponent = PrefixExponent(prefix)]
        /\ ret' = [NoRet EXCEPT !.num = Pow(base, PrefixExponent(prefix))]
        /\ UNCHANGED value

\* prefix.exponent()
CallPrefixExponent ==
    /\ op = "init"
    /\ \E prefix \in Prefixes :
        /\ op' = "exponent"
        /\ arg' = [NoArg EXCEPT !.prefix = prefix]
        /\ ret' = [NoRet EXCEPT !.exp = PrefixExponent(prefix)]
        /\ UNCHANGED value

\* Prefix::try_from(n), on any i32 or on what prefix.exponent() returned
CallPrefixTryFrom ==
    /\ op \in {"init", "exponent"}
    /\ \E n \in IF op = "init" THEN Exponents ELSE {ret.exp} :
        LET r == PrefixTryFrom(n)
        IN  /\ op' = "try_from"
            /\ arg' = [arg EXCEPT !.exponent = n]
            /\ ret' = [NoRet EXCEPT !.ok = r.ok,
                                    !.prefix = IF r.ok THEN r.prefix ELSE "",
                                    !.err = IF r.ok THEN "" ELSE r.prefix]
            /\ UNCHANGED value

\* <&str>::from(&prefix), the symbol of a prefix
CallPrefixSymbol ==
    /\ op = "init"
    /\ \E prefix \in Prefixes :
        /\ op' = "symbol"
        /\ arg' = [NoArg EXCEPT !.prefix = prefix]
        /\ ret' = [NoRet EXCEPT !.symbol = PrefixSymbol(prefix)]
        /\ UNCHANGED value

\* Prefix::from_str(s), on any string or on the symbol of a prefix
CallPrefixFromStr ==
    /\ op \in {"init", "symbol"}
    /\ \E s \in IF op = "init" THEN Strings ELSE {ret.symbol} :
        LET r == PrefixFromStr(s)
        IN  /\ op' = "from_str"
            /\ arg' = [arg EXCEPT !.s = s]
            /\ ret' = [NoRet EXCEPT !.ok = r.ok, !.prefix = r.prefix,
                                    !.err = r.err, !.errtext = r.errtext]
            /\ UNCHANGED value

\* one of the helpers of helpers.rs applied to x
CallHelper ==
    /\ op = "init"
    /\ \E h \in Helpers, x \in Inputs :
        \E r \in ScaleFn(h, x) :
            /\ op' = "helper"
            /\ arg' = [NoArg EXCEPT !.x = x, !.helper = h,
                          !.base = Helper[h].base,
                          !.constraint = Constraint(Helper[h].constraint, <<>>)]
            /\ ret' = [NoRet EXCEPT !.panic = r.panic, !.why = r.why,
                                    !.text = r.text]
            /\ value' = r.value

Next ==
    \/ CallIntegralExponentFor
    \/ CallClosestPrefixFor
    \/ CallNewWith
    \/ CallToF64
    \/ CallHelper
    \/ MakeValue
    \/ CallFormatValue
    \/ CallSeparatedFloat
    \/ CallPrefixExponent
    \/ CallPrefixTryFrom
    \/ CallPrefixSymbol
    \/ CallPrefixFromStr
    \/ CallSignum
    \/ CallNew
    \/ CallFrom
    \/ CallFromRef
    \/ CallPow
    \/ CallDisplay
    \/ CallClosestPrefixBelow

Spec == Init /\ [][Next]_vars

(***************************************************************************)
(* Properties                                                              *)
(***************************************************************************)
IsFinite(x) == x.k = "zero" \/ IsFiniteNonZero(x)

BuiltIn == {"None", "UnitOnly", "UnitAndAbove", "UnitAndBelow"}

EmptyCustom == Constraint("Custom", <<>>)

MilliUnitKilo == <<"Milli", "Unit", "Kilo">>

\* a call that did not return overflowed on an infinity in
\* integral_exponent_for, or was given the empty Custom list
PanicIsKnown ==
    \/ ret.why = "overflow" /\ arg.x.k = "inf"
    \/ ret.why = "empty" /\ arg.constraint = EmptyCustom

IsNormal(m) == IsFiniteNonZero(m) /\ AbsGeq(m, F64MinNormalExp, 0)

RoundTripOverflowReached ==
    /\ op = "to_f64"
    /\ arg.x = Fin(1, 1, F64MaxExp - 1, 0)
    /\ arg.base = "B1000"
    /\ arg.constraint = Constraint("Custom", <<"Yocto">>)
    /\ value.mantissa = Inf(1)
    /\ ret.num = Inf(1)

GridInvariant ==
    op = "new_with" =>
        IF ret.panic THEN PanicIsKnown
        ELSE LET e == PrefixExponent(value.prefix)
                 c == arg.constraint
             IN  /\ e % 3 = 0
                 /\ c.tag = "None" => -24 <= e /\ e <= 24
                 /\ c.tag = "UnitOnly" => e = 0
                 /\ c.tag = "UnitAndAbove" => 0 <= e /\ e <= 24
                 /\ c.tag = "UnitAndBelow" => -24 <= e /\ e <= 0
                 /\ c.tag = "Custom" =>
                        \E i \in 1..Len(c.list) : c.list[i] = value.prefix

\* 1.5e-26 under UnitAndAbove stays at Unit
GridInvariantReached ==
    /\ op = "new_with"
    /\ ~ret.panic
    /\ arg.x = Fin(1, 15, -27, -27)
    /\ arg.constraint.tag = "UnitAndAbove"
    /\ value.prefix = "Unit"

\* radix^(e/3) <= |x| < radix^(e/3 + 1) for a multiple e of 3
InBracket(base, x, e) ==
    /\ IsFiniteNonZero(x)
    /\ e % 3 = 0
    /\ IF base = "B1000"
       THEN AbsGeq(x, e, e) /\ ~AbsGeq(x, e + 3, e + 3)
       ELSE AbsGeq(x, 10 * (e \div 3), 0) /\ ~AbsGeq(x, 10 * (e \div 3) + 10, 0)

F64Neg(x) == IF x.k = "nan" THEN x ELSE [x EXCEPT !.s = -x.s]

ZeroHandling ==
    /\ (op = "integral_exponent_for" /\ arg.x.k = "zero") =>
            ~ret.panic /\ ret.exp = 0 /\ ret.log = "none"
    /\ (op = "new_with" /\ arg.x.k = "zero" /\ arg.constraint # EmptyCustom) =>
            /\ ~ret.panic
            /\ value.mantissa.k = "zero"
            /\ arg.constraint.tag \in {"None", "UnitAndAbove", "UnitAndBelow"}
                    => value.prefix = "Unit"

\* -0.0 in base 1024 without constraint: mantissa -0.0, Unit
ZeroHandlingReached ==
    /\ op = "new_with"
    /\ arg.x = Zero(-1)
    /\ arg.base = "B1024"
    /\ arg.constraint.tag = "None"
    /\ value.mantissa = Zero(-1)
    /\ value.prefix = "Unit"

\* |x| >= 2^p * 5^q for an x that is not NaN
MagnitudeGeq(x, p, q) == x.k = "inf" \/ (x.k = "fin" /\ AbsGeq(x, p, q))

\* C5: with base B1000 and no constraint, every x with |x| >= 1e27 gets
\* Yotta and the mantissa x / 1e24, of magnitude >= 1000; every non-zero x with
\* |x| < 1e-24 gets Yocto and the mantissa x / 1e-24, of magnitude < 1; and no
\* input produces an error.
OutOfScaleClamping ==
    (op = "new_with" /\ arg.base = "B1000" /\ arg.constraint.tag = "None") =>
        /\ ~ret.panic
        /\ MagnitudeGeq(arg.x, 27, 27) =>
            /\ value.prefix = "Yotta"
            /\ value.mantissa =
                IF arg.x.k = "inf" THEN arg.x
                ELSE [arg.x EXCEPT !.e2 = @ - 24, !.e5 = @ - 24]
            /\ MagnitudeGeq(value.mantissa, 3, 3)
        /\ (arg.x.k = "fin" /\ ~AbsGeq(arg.x, -24, -24)) =>
            /\ value.prefix = "Yocto"
            /\ value.mantissa = [arg.x EXCEPT !.e2 = @ + 24, !.e5 = @ + 24]
            /\ ~MagnitudeGeq(value.mantissa, 0, 0)

\* -1.5e28 gives mantissa -1.5e4 with Yotta
OutOfScaleClampingReached ==
    /\ op = "new_with"
    /\ arg.base = "B1000"
    /\ arg.constraint.tag = "None"
    /\ arg.x = Fin(-1, 15, 27, 27)
    /\ value.prefix = "Yotta"
    /\ value.mantissa = Fin(-1, 15, 3, 3)

\* C6: for every exponent e that is a multiple of 3, closest_prefix_for
\* returns the prefix whose exponent is e clamped into -24..24 for None,
\* 0..24 for UnitAndAbove and -24..0 for UnitAndBelow.
ClampedGridMatch ==
    (/\ op = "closest_prefix_for"
     /\ arg.exponent % 3 = 0
     /\ arg.constraint.tag \in {"None", "UnitAndAbove", "UnitAndBelow"}) =>
        LET e == arg.exponent
            lo == IF arg.constraint.tag = "UnitAndAbove" THEN 0 ELSE -24
            hi == IF arg.constraint.tag = "UnitAndBelow" THEN 0 ELSE 24
        IN  /\ ~ret.panic
            /\ PrefixExponent(ret.prefix) =
                    IF e < lo THEN lo ELSE IF e > hi THEN hi ELSE e

\* -27 under UnitAndAbove gives Unit
ClampedGridMatchReached ==
    /\ op = "closest_prefix_for"
    /\ arg.exponent = -27
    /\ arg.constraint.tag = "UnitAndAbove"
    /\ ret.prefix = "Unit"

\* C7: under UnitOnly, for every x and every base, the Value new_with
\* returns has prefix Unit and the mantissa x; new_with fails to return
\* only as PanicIsKnown says.
UnitOnlyNeverScales ==
    (op = "new_with" /\ arg.constraint.tag = "UnitOnly") =>
        IF ret.panic THEN PanicIsKnown
        ELSE value.prefix = "Unit" /\ value.mantissa = arg.x

\* 1234 stays 1234
UnitOnlyNeverScalesReached ==
    /\ op = "new_with"
    /\ arg.constraint.tag = "UnitOnly"
    /\ arg.x = Fin(1, 1234, 0, 0)
    /\ value.prefix = "Unit"
    /\ value.mantissa = Fin(1, 1234, 0, 0)

StrictlyAscending(list) ==
    \A i \in 1..(Len(list) - 1) :
        PrefixExponent(list[i]) < PrefixExponent(list[i + 1])

\* C8: for a non-empty Custom list strictly ascending by exponent and any
\* exponent e, closest_prefix_for returns the first listed prefix when e is
\* below it, and otherwise the largest listed prefix whose exponent is <= e;
\* with [Milli, Unit, Kilo]: -24, -30, -3 and -1 give Milli, 0 gives Unit, 3
\* and 24 give Kilo.
CustomFloorSearch ==
    (/\ op = "closest_prefix_for"
     /\ arg.constraint.tag = "Custom"
     /\ arg.constraint.list # <<>>
     /\ StrictlyAscending(arg.constraint.list)) =>
        LET e == arg.exponent
            list == arg.constraint.list
            listed == {list[i] : i \in 1..Len(list)}
        IN  /\ ~ret.panic
            /\ IF e < PrefixExponent(list[1])
               THEN ret.prefix = list[1]
               ELSE /\ ret.prefix \in listed
                    /\ PrefixExponent(ret.prefix) <= e
                    /\ \A q \in listed :
                        PrefixExponent(q) <= e =>
                            PrefixExponent(q) <= PrefixExponent(ret.prefix)
            /\ list = MilliUnitKilo =>
                /\ e \in {-24, -30, -3, -1} => ret.prefix = "Milli"
                /\ e = 0 => ret.prefix = "Unit"
                /\ e \in {3, 24} => ret.prefix = "Kilo"

\* 24 with [Milli, Unit, Kilo] gives Kilo
CustomFloorSearchReached ==
    /\ op = "closest_prefix_for"
    /\ arg.constraint = Constraint("Custom", MilliUnitKilo)
    /\ arg.exponent = 24
    /\ ret.prefix = "Kilo"

\* C9: closest_prefix_for panics for the empty Custom list whatever the
\* exponent and for no other constraint; new_with panics for the empty Custom
\* list whatever the input.
EmptyCustomPanics ==
    /\ op = "closest_prefix_for" =>
            (ret.panic <=> arg.constraint = EmptyCustom)
    /\ (op = "new_with" /\ arg.constraint = EmptyCustom) => ret.panic
    /\ (op = "new_with" /\ ret.panic /\ ret.why = "empty") =>
            arg.constraint = EmptyCustom

\* new_with(1234, B1000, Custom(vec![])) panics
EmptyCustomPanicsReached ==
    /\ op = "new_with"
    /\ arg.constraint = EmptyCustom
    /\ arg.x = Fin(1, 1234, 0, 0)
    /\ ret.panic
    /\ ret.why = "empty"

\* C10: the text a helper returns holds no prefix outside its constraint:
\* seconds and seconds3 none above Unit; bytes, bytes1, bytes2, bibytes,
\* bibytes1 and bibytes2 none below Unit; number_ and bytes_ none at all.  A
\* helper fails to return only as PanicIsKnown says.
HelpersKeepTheirConstraint ==
    op = "helper" =>
        IF ret.panic THEN PanicIsKnown
        ELSE LET h == arg.helper
                 t == ret.text
             IN  /\ h \in {"seconds", "seconds3"} =>
                        t.symbol \in {"y", "z", "a", "f", "p", "n", "µ", "m", ""}
                 /\ h \in {"bytes", "bytes1", "bytes2",
                           "bibytes", "bibytes1", "bibytes2"} =>
                        t.symbol \in {"", "k", "M", "G", "T", "P", "E", "Z", "Y"}
                 /\ h \in {"number_", "bytes_"} =>
                        t.symbol = "" /\ t.infix = ""

\* seconds(5.4e4) shows no kilo-seconds
HelpersKeepTheirConstraintReached ==
    /\ op = "helper"
    /\ arg.helper = "seconds"
    /\ arg.x = Fin(1, 54, 3, 3)
    /\ ret.text.symbol = ""
    /\ ret.text.mantissa = arg.x

\* C11: in every form of format_value!, and so in every helper, the text
\* after the prefix symbol is "i" if and only if the base is B1024 and the
\* prefix is not Unit, and is empty otherwise; bibytes1(16 * 1024) is made of
\* the mantissa 16, " ", "k", "i" and "B", and bibytes1(16) of 16, " ", "",
\* "" and "B".
BinaryInfixRule ==
    (op \in {"format_value", "helper"} /\ ~ret.panic) =>
        /\ ret.text.infix = "i" <=>
                (value.base = "B1024" /\ value.prefix # "Unit")
        /\ ret.text.infix # "i" => ret.text.infix = ""
        /\ (arg.helper = "bibytes1" /\ arg.x = Fin(1, 16, 10, 0)) =>
                ret.text = [mantissa |-> Fin(1, 16, 0, 0), fmt |-> "{:.1}",
                            sep |-> "", space |-> " ", symbol |-> "k",
                            infix |-> "i", unit |-> "B"]
        /\ (arg.helper = "bibytes1" /\ arg.x = Fin(1, 16, 0, 0)) =>
                ret.text = [mantissa |-> Fin(1, 16, 0, 0), fmt |-> "{:.1}",
                            sep |-> "", space |-> " ", symbol |-> "",
                            infix |-> "", unit |-> "B"]

\* a Value in base 1024 with prefix Mega, in the no_unit form: "i" follows "M"
BinaryInfixRuleReached ==
    /\ op = "format_value"
    /\ arg.arm = "no_unit"
    /\ value.base = "B1024"
    /\ value.prefix = "Mega"
    /\ ret.text.symbol = "M"
    /\ ret.text.infix = "i"

\* C12 as stated: in the no_unit form the text is the grouped mantissa
\* alone, with no space, no prefix symbol and no infix, for every Value.
BareModeMantissaAlone ==
    (op = "format_value" /\ arg.arm = "no_unit") =>
        /\ ret.text.sep = arg.separator
        /\ ret.text.space = ""
        /\ ret.text.symbol = ""
        /\ ret.text.infix = ""

\* C12: in the no_unit form the text is the grouped mantissa alone when the
\* prefix is Unit; for every other prefix a space, the prefix symbol and, in
\* base 1024, the infix "i" follow it.
BareModeKeepsPrefix ==
    (op = "format_value" /\ arg.arm = "no_unit") =>
        /\ ret.text.sep = arg.separator
        /\ ret.text.mantissa = value.mantissa
        /\ IF value.prefix = "Unit"
           THEN ret.text.space = "" /\ ret.text.symbol = ""
                /\ ret.text.infix = ""
           ELSE /\ ret.text.space = " "
                /\ ret.text.symbol # ""
                /\ ret.text.infix = IF value.base = "B1024" THEN "i" ELSE ""

\* 1.5 with prefix Kilo in base 1000, no_unit: the mantissa, " " and "k"
BareModeKeepsPrefixReached ==
    /\ op = "format_value"
    /\ arg.arm = "no_unit"
    /\ value = [mantissa |-> Fin(1, 15, -1, -1), prefix |-> "Kilo",
                base |-> "B1000"]
    /\ ret.text.space = " "
    /\ ret.text.symbol = "k"

\* C13 as stated: outside the no_unit form there is a space between the
\* mantissa and the prefix symbol, left out when the prefix is Unit.
SpaceOmittedForUnit ==
    (op = "format_value" /\ arg.arm # "no_unit") =>
        ret.text.space = IF value.prefix = "Unit" THEN "" ELSE " "

\* C13: outside the no_unit form one space follows the mantissa text for
\* every prefix, Unit included, in the same way with and without grouping;
\* a helper with a unit writes that space too.
SpaceAlwaysWritten ==
    /\ (op = "format_value" /\ arg.arm # "no_unit") => ret.text.space = " "
    /\ (op = "helper" /\ ~ret.panic /\ arg.helper # "number_") =>
            ret.text.space = " "

\* -0.0 with prefix Unit, with grouping: a space follows the mantissa
SpaceAlwaysWrittenReached ==
    /\ op = "format_value"
    /\ arg.arm = "groupings"
    /\ value.prefix = "Unit"
    /\ value.mantissa = Zero(-1)
    /\ ret.text.space = " "
    /\ ret.text.symbol = ""

\* t without its occurrences of ch
Without(t, ch) == SelectSeq(t, LAMBDA c : c # ch)

\* how many characters of t satisfy is_ascii_digit
DigitCount(t) == Len(SelectSeq(t, IsAsciiDigit))

RECURSIVE GroupLengths(_, _)
\* the lengths of the pieces the occurrences of ch cut t into
GroupLengths(t, ch) ==
    IF \E i \in 1..Len(t) : t[i] = ch
    THEN LET i == CHOOSE j \in 1..Len(t) :
                    t[j] = ch /\ \A k \in 1..(j - 1) : t[k] # ch
         IN  <<i - 1>> \o GroupLengths(SubSeq(t, i + 1, Len(t)), ch)
    ELSE <<Len(t)>>

\* the separators a run of n digits receives
SeparatorsFor(n) == IF n = 0 THEN 0 ELSE (n - 1) \div 3

\* C14: for digits optionally followed by '.' and digits, separated_float
\* cuts the integer part into groups of 3 digits of which only the leftmost
\* may have 1 to 3, and the fractional part into groups of 3 digits of which
\* only the rightmost may have 1 to 3; a run of n digits receives
\* floor((n-1)/3) separators; "1234.5678" gives "1_234.567_8" and
\* "1234567.1234567" gives "1_234_567.123_456_7".
ThousandsGrouping ==
    (op = "separated_float" /\ arg.input \in PlainTexts) =>
        LET sep == arg.separator
            p == FindPoint(arg.input)
            q == FindPoint(ret.str)
            int == GroupLengths(SubSeq(ret.str, 1, q - 1), sep)
            frac == GroupLengths(SubSeq(ret.str, q + 1, Len(ret.str)), sep)
        IN  /\ Without(ret.str, sep) = arg.input
            /\ \A i \in 2..Len(int) : int[i] = 3
            /\ int[1] \in 1..3
            /\ Len(int) = SeparatorsFor(p - 1) + 1
            /\ p <= Len(arg.input) =>
                /\ \A i \in 1..(Len(frac) - 1) : frac[i] = 3
                /\ frac[Len(frac)] \in 1..3
                /\ Len(frac) = SeparatorsFor(Len(arg.input) - p) + 1
            /\ (arg.input = DigitRun(1, 4) \o <<".">> \o DigitRun(5, 4)
                    /\ sep = "_") =>
                ret.str = <<"1", "_", "2", "3", "4", ".",
                            "5", "6", "7", "_", "8">>
            /\ (arg.input = DigitRun(1, 7) \o <<".">> \o DigitRun(1, 7)
                    /\ sep = "_") =>
                ret.str = <<"1", "_", "2", "3", "4", "_", "5", "6", "7", ".",
                            "1", "2", "3", "_", "4", "5", "6", "_", "7">>

\* "1234567.1234567" is grouped into "1_234_567.123_456_7"
ThousandsGroupingReached ==
    /\ op = "separated_float"
    /\ arg.separator = "_"
    /\ arg.input = DigitRun(1, 7) \o <<".">> \o DigitRun(1, 7)
    /\ Len(ret.str) = 19
    /\ ret.str[2] = "_"
    /\ ret.str[18] = "_"

\* C15: for every text without the separator, taking the separators out of
\* separated_float(s, sep) gives s back, grouping that again gives the same
\* grouped text, and the number of separators depends on the digits alone:
\* characters that are not digits do not advance the count.
GroupingOnlyInserts ==
    (op = "separated_float"
        /\ \A i \in 1..Len(arg.input) : arg.input[i] # arg.separator) =>
        LET sep == arg.separator
            p == FindPoint(arg.input)
            stripped == Without(ret.str, sep)
        IN  /\ stripped = arg.input
            /\ SeparatedFloat(stripped, sep) = ret.str
            /\ Len(ret.str) - Len(arg.input) =
                SeparatorsFor(DigitCount(SubSeq(arg.input, 1, p - 1)))
                + SeparatorsFor(DigitCount(SubSeq(arg.input, p,
                                                  Len(arg.input))))

\* "--1234567.1234567++" is grouped into "--1_234_567.123_456_7++"
GroupingOnlyInsertsReached ==
    /\ op = "separated_float"
    /\ arg.separator = "_"
    /\ arg.input = <<"-", "-">> \o DigitRun(1, 7) \o <<".">> \o DigitRun(1, 7)
                    \o <<"+", "+">>
    /\ ret.str = <<"-", "-", "1", "_", "2", "3", "4", "_", "5", "6", "7", ".",
                   "1", "2", "3", "_", "4", "5", "6", "_", "7", "+", "+">>

\* C16: in the grouping of a numeric text (padding, sign, digits, '.',
\* digits, padding) every separator stands between two digits: none starts
\* or ends a run of digits, none is next to the decimal point.
SeparatorsBetweenDigits ==
    (op = "separated_float" /\ arg.input \in NumericTexts) =>
        \A i \in 1..Len(ret.str) :
            ret.str[i] = arg.separator =>
                /\ 1 < i
                /\ i < Len(ret.str)
                /\ IsAsciiDigit(ret.str[i - 1])
                /\ IsAsciiDigit(ret.str[i + 1])

\* " -1234.1234 " is grouped into " -1,234.123,4 "
SeparatorsBetweenDigitsReached ==
    /\ op = "separated_float"
    /\ arg.separator = ","
    /\ arg.input = <<" ", "-">> \o DigitRun(1, 4) \o <<".">> \o DigitRun(1, 4)
                    \o <<" ">>
    /\ ret.str = <<" ", "-", "1", ",", "2", "3", "4", ".",
                   "1", "2", "3", ",", "4", " ">>

\* C17: there are 17 prefixes, Unit and 16 with a symbol; their exponents
\* are multiples of 3 from -24 to 24, strictly increasing in the order of
\* declaration; Prefix::try_from(n) succeeds exactly when n is one of these
\* multiples and fails with ExponentParsing otherwise; and
\* Prefix::try_from(p.exponent()) is p.
PrefixTable ==
    /\ Len(Prefix) = 17
    /\ Cardinality(Prefixes) = 17
    /\ Cardinality({p \in Prefixes : PrefixSymbol(p) # ""}) = 16
    /\ PrefixSymbol("Unit") = ""
    /\ \A i \in 1..Len(Prefix) :
        /\ PrefixExponent(Prefix[i]) % 3 = 0
        /\ PrefixExponent(Prefix[i]) \in (-24)..24
        /\ \A j \in (i + 1)..Len(Prefix) :
            PrefixExponent(Prefix[i]) < PrefixExponent(Prefix[j])
    /\ op = "exponent" => ret.exp = 3 * (CHOOSE i \in 1..17 :
                                            Prefix[i] = arg.prefix) - 27
    /\ op = "try_from" =>
        /\ ret.ok <=> (arg.exponent % 3 = 0 /\ arg.exponent \in (-24)..24)
        /\ ret.ok => (ret.prefix \in Prefixes
                        /\ PrefixExponent(ret.prefix) = arg.exponent)
        /\ ~ret.ok => ret.err = "ExponentParsing"
        /\ arg.prefix # "" => (ret.ok /\ ret.prefix = arg.prefix)

\* Prefix::try_from(Prefix::Yotta.exponent()) has returned Ok(Yotta)
PrefixTableReached ==
    /\ op = "try_from"
    /\ arg.prefix = "Yotta"
    /\ arg.exponent = 24
    /\ ret.ok
    /\ ret.prefix = "Yotta"

\* the name of a prefix in lower case
LowerCaseName(p) ==
    CASE p = "Yocto" -> "yocto"
      [] p = "Zepto" -> "zepto"
      [] p = "Atto"  -> "atto"
      [] p = "Femto" -> "femto"
      [] p = "Pico"  -> "pico"
      [] p = "Nano"  -> "nano"
      [] p = "Micro" -> "micro"
      [] p = "Milli" -> "milli"
      [] p = "Unit"  -> "unit"
      [] p = "Kilo"  -> "kilo"
      [] p = "Mega"  -> "mega"
      [] p = "Giga"  -> "giga"
      [] p = "Tera"  -> "tera"
      [] p = "Peta"  -> "peta"
      [] p = "Exa"   -> "exa"
      [] p = "Zetta" -> "zetta"
      [] p = "Yotta" -> "yotta"

\* the three spellings of a prefix: its name, its name in lower case and the
\* symbol it is displayed with
SpellingsOf(p) == {p, LowerCaseName(p), PrefixSymbol(p)}

\* C18: Prefix::from_str gives each of the 16 named prefixes for its name,
\* its name in lower case and its symbol, told apart by case ("m" is Milli,
\* "M" is Mega, and so for p/P, z/Z, y/Y); for every other string s it gives
\* Err(ExponentParsing(s)) with s unchanged.
PrefixParsing ==
    op = "from_str" =>
        /\ \A p \in Prefixes \ {"Unit"} :
            arg.s \in SpellingsOf(p) => (ret.ok /\ ret.prefix = p)
        /\ (\A p \in Prefixes \ {"Unit"} : arg.s \notin SpellingsOf(p)) =>
            /\ ~ret.ok
            /\ ret.err = "ExponentParsing"
            /\ ret.errtext = arg.s
        /\ arg.s \in {"Kilo", "kilo", "k"} => ret.prefix = "Kilo"
        /\ arg.s = "y" => ret.prefix = "Yocto"
        /\ arg.s = "Y" => ret.prefix = "Yotta"
        /\ arg.s = "m" => ret.prefix = "Milli"
        /\ arg.s = "M" => ret.prefix = "Mega"
        /\ arg.s = "p" => ret.prefix = "Pico"
        /\ arg.s = "P" => ret.prefix = "Peta"
        /\ arg.s = "z" => ret.prefix = "Zepto"
        /\ arg.s = "Z" => ret.prefix = "Zetta"

\* Prefix::from_str("M") has returned Ok(Mega)
PrefixParsingReached ==
    /\ op = "from_str"
    /\ arg.s = "M"
    /\ ret.ok
    /\ ret.prefix = "Mega"

\* the sign of an f64 as an f64: 1.0, -1.0 or NaN
SignOf(x) ==
    IF x.k = "nan" THEN NaN
    ELSE IF x.s = 1 THEN Fin(1, 1, 0, 0) ELSE Fin(-1, 1, 0, 0)

\* C19: Value::signum is the sign of the mantissa, whatever the prefix and
\* the base: 1.0 for a positive mantissa and +0.0, -1.0 for a negative one
\* and -0.0, NaN for NaN; and the signum of the Value that
\* Value::new_with(x, base, constraint) returned is the sign of x.
SignumIsSignOfMantissa ==
    op = "signum" =>
        /\ ret.num = SignOf(value.mantissa)
        /\ ret.num.k \in {"nan", "fin"}
        /\ value.mantissa.k = "zero" =>
            ret.num = Fin(value.mantissa.s, 1, 0, 0)
        /\ arg.base # "" => ret.num = SignOf(arg.x)

\* the signum of new_with(-0.0, B1024, UnitAndBelow) is -1.0
SignumIsSignOfMantissaReached ==
    /\ op = "signum"
    /\ arg.base = "B1024"
    /\ arg.constraint = Constraint("UnitAndBelow", <<>>)
    /\ arg.x = Zero(-1)
    /\ ret.num = Fin(-1, 1, 0, 0)

\* what a call of new, from or from(&) made of its number
Outcome == [panic |-> ret.panic, why |-> ret.why, value |-> value]

\* C20: Value::new(x), Value::from(x) and Value::from(&x) end as
\* Value::new_with(x, Base::B1000, Constraint::None) does, for a number x of
\* each of the twelve types: the same Value, of base B1000, with the prefix
\* taken from the whole range.
NewIsNewWithDefaults ==
    op \in {"new", "from", "from_ref"} =>
        LET x == IntoF64(arg.number)
            none == Constraint("None", <<>>)
        IN  /\ Outcome \in NewWith(x, "B1000", none)
            /\ Outcome \in New(arg.number)
            /\ ret.panic => x.k = "inf" /\ ret.why = "overflow"
            /\ ~ret.panic =>
                /\ value.base = "B1000"
                /\ \E e \in IntegralExponentFor("B1000", x) :
                    /\ ~e.panic
                    /\ value.prefix = ClosestPrefixFor(e.exp, none).prefix
                    /\ value.mantissa =
                        F64Div(x, Pow("B1000", PrefixExponent(value.prefix)))
            /\ arg.number = IntNumber("u32", 15) =>
                value = [mantissa |-> Fin(1, 15, 0, 0), prefix |-> "Unit",
                         base |-> "B1000"]
            /\ arg.number = IntNumber("u32", 10000000) =>
                value = [mantissa |-> Fin(1, 10, 0, 0), prefix |-> "Mega",
                         base |-> "B1000"]
            /\ arg.number = FloatNumber("f64", Fin(-1, 15, 27, 27)) =>
                value = [mantissa |-> Fin(-1, 15000, 0, 0),
                         prefix |-> "Yotta", base |-> "B1000"]

\* Value::from(&10_000_000u32) has returned 10 with the prefix Mega
NewIsNewWithDefaultsReached ==
    /\ op = "from_ref"
    /\ arg.number = IntNumber("u32", 10000000)
    /\ ~ret.panic
    /\ value = [mantissa |-> Fin(1, 10, 0, 0), prefix |-> "Mega",
                base |-> "B1000"]

\* the radix of a base as an f64
Radix(base) == IF base = "B1000" THEN Fin(1, 1000, 0, 0) ELSE Fin(1, 1024, 0, 0)

RECURSIVE RadixPower(_, _)
\* radix^k by k multiplications or divisions of 1 by the radix
RadixPower(base, k) ==
    IF k = 0 THEN Fin(1, 1, 0, 0)
    ELSE IF k > 0 THEN F64Mul(RadixPower(base, k - 1), Radix(base))
    ELSE F64Div(RadixPower(base, k + 1), Radix(base))

Totality ==
    /\ op = "integral_exponent_for" =>
        /\ ~ret.panic
        /\ arg.x.k # "zero" =>
            LET a == AsI32(FloorLogOver(arg.base, arg.x))
            IN  -(I32Max \div 3) <= a /\ a <= I32Max \div 3
    /\ (op = "new_with" /\ arg.constraint # EmptyCustom) => ~ret.panic

\* integral_exponent_for(-inf) in base 1024 has panicked on i32::MAX * 3
TotalityBrokenReached ==
    /\ op = "integral_exponent_for"
    /\ arg.base = "B1024"
    /\ arg.x = Inf(-1)
    /\ AsI32(FloorLogOver(arg.base, arg.x)) = I32Max
    /\ ret.panic
    /\ ret.why = "overflow"

\* C23: Display writes the mantissa alone for the prefix Unit, and the
\* mantissa, a space and the prefix symbol otherwise, with no infix for
\* either base; 5.3e5 is displayed as the mantissa 530, " " and "k".
DisplayIgnoresBase ==
    op = "display" =>
        /\ ret.text.mantissa = value.mantissa
        /\ ret.text.fmt = "{}"
        /\ ret.text.sep = ""
        /\ ret.text.infix = ""
        /\ ret.text.unit = ""
        /\ value.prefix = "Unit" =>
            (ret.text.space = "" /\ ret.text.symbol = "")
        /\ value.prefix # "Unit" =>
            (ret.text.space = " "
                /\ ret.text.symbol = PrefixSymbol(value.prefix)
                /\ ret.text.symbol # "")
        /\ arg.number = FloatNumber("f64", Fin(1, 53, 4, 4)) =>
            ret.text = [mantissa |-> Fin(1, 530, 0, 0), fmt |-> "{}",
                        sep |-> "", space |-> " ", symbol |-> "k",
                        infix |-> "", unit |-> ""]

\* a Value of base 1024 with the prefix Kilo is displayed with "k" and no "i"
DisplayIgnoresBaseReached ==
    /\ op = "display"
    /\ value.base = "B1024"
    /\ value.prefix = "Kilo"
    /\ ret.text.space = " "
    /\ ret.text.symbol = "k"
    /\ ret.text.infix = ""

\* the digits of t from the a-th to the b-th character
DigitsWithin(t, a, b) == DigitCount(SubSeq(t, a, b))

\* in the grouped text, a separator was pushed just before a digit of the
\* scan exactly when Due holds of the running count of that digit, which
\* counts the digit itself: right-to-left up to the first '.', left-to-right
\* from it on
PushedWhen(Due(_)) ==
    LET out == ret.str
        q == FindPoint(out)
    IN  \A i \in 1..Len(out) :
            IsAsciiDigit(out[i]) =>
                IF i < q
                THEN (i < Len(out) /\ out[i + 1] = arg.separator)
                        <=> Due(DigitsWithin(out, i, q - 1))
                ELSE (out[i - 1] = arg.separator)
                        <=> Due(DigitsWithin(out, q, i))

\* C24 as stated: the grouping character is pushed before a digit whose
\* running count, the digit included, is greater than 1 and a multiple of 3.
CounterRuleOneIndexed ==
    op = "separated_float" =>
        PushedWhen(LAMBDA n : n > 1 /\ n % 3 = 0)

\* C24: the grouping character is pushed before a digit when the count of
\* the digits seen before it is greater than 1 and a multiple of 3, that is
\* before the 4th, 7th, 10th, ... digit of the scan, right-to-left in the
\* integer part and left-to-right in the fractional part.
CounterRuleZeroIndexed ==
    op = "separated_float" =>
        /\ PushedWhen(LAMBDA n : n - 1 > 1 /\ (n - 1) % 3 = 0)
        /\ PushedWhen(LAMBDA n : n \in {4, 7, 10, 13, 16})

\* "1234.5678" is grouped into "1_234.567_8": the separators stand before
\* the 4th digit of each scan
CounterRuleZeroIndexedReached ==
    /\ op = "separated_float"
    /\ arg.separator = "_"
    /\ arg.input = DigitRun(1, 4) \o <<".">> \o DigitRun(5, 4)
    /\ ret.str = <<"1", "_", "2", "3", "4", ".", "5", "6", "7", "_", "8">>

\* C25: for an exponent that is not a multiple of 3 closest_prefix_for
\* returns: under None, UnitAndAbove and UnitAndBelow it is Unit when the
\* exponent clamped into the range of the constraint is not a multiple of 3
\* (1 and -1 give Unit under None) and the prefix of the clamped exponent
\* when it is; under a non-empty ascending Custom list it is the first prefix
\* for an exponent below it and the largest listed prefix not above the
\* exponent otherwise (-1 gives Milli with [Milli, Unit, Kilo]).
OffGridExponent ==
    (op = "closest_prefix_for" /\ arg.exponent % 3 # 0) =>
        LET e == arg.exponent
            tag == arg.constraint.tag
            list == arg.constraint.list
            lo == IF tag = "UnitAndAbove" THEN 0 ELSE -24
            hi == IF tag = "UnitAndBelow" THEN 0 ELSE 24
            clamped == IF e < lo THEN lo ELSE IF e > hi THEN hi ELSE e
        IN  /\ ret.panic <=> arg.constraint = EmptyCustom
            /\ tag \in {"None", "UnitAndAbove", "UnitAndBelow"} =>
                /\ clamped % 3 # 0 => ret.prefix = "Unit"
                /\ clamped % 3 = 0 => PrefixExponent(ret.prefix) = clamped
            /\ (tag = "None" /\ e \in {1, -1}) => ret.prefix = "Unit"
            /\ (tag = "UnitAndAbove" /\ e \in {1, -1}) => ret.prefix = "Unit"
            /\ (tag = "UnitAndBelow" /\ e \in {1, -1}) => ret.prefix = "Unit"
            /\ (tag = "Custom" /\ list # <<>> /\ StrictlyAscending(list)) =>
                IF e < PrefixExponent(list[1])
                THEN ret.prefix = list[1]
                ELSE /\ \E i \in 1..Len(list) : ret.prefix = list[i]
                     /\ PrefixExponent(ret.prefix) < e
                     /\ \A i \in 1..Len(list) :
                            PrefixExponent(list[i]) < e =>
                                PrefixExponent(list[i])
                                    <= PrefixExponent(ret.prefix)
            /\ (arg.constraint = Constraint("Custom", MilliUnitKilo)
                    /\ e = -1) => ret.prefix = "Milli"

\* 20 under UnitAndAbove stays 20 when clamped, and gives Unit
OffGridExponentReached ==
    /\ op = "closest_prefix_for"
    /\ arg.constraint = Constraint("UnitAndAbove", <<>>)
    /\ arg.exponent = 20
    /\ ~ret.panic
    /\ ret.prefix = "Unit"

WithinScale(base, x) ==
    /\ IsFiniteNonZero(x)
    /\ IF base = "B1000"
       THEN AbsGeq(x, -24, -24) /\ ~AbsGeq(x, 27, 27)
       ELSE AbsGeq(x, -80, 0) /\ ~AbsGeq(x, 90, 0)

\* 1 <= |m| < r for the radix r of base
MantissaWithinRadix(base, m) ==
    /\ IsFiniteNonZero(m)
    /\ AbsGeq(m, 0, 0)
    /\ IF base = "B1000" THEN ~AbsGeq(m, 3, 3) ELSE ~AbsGeq(m, 10, 0)

Ascending(list) ==
    \A i, j \in 1..Len(list) :
        i <= j => PrefixExponent(list[i]) <= PrefixExponent(list[j])

\* the constraints C28 is about
MonotoneConstraint(constraint) ==
    constraint.tag = "Custom" =>
        (constraint.list # <<>> /\ Ascending(constraint.list))

\* the sign of |x| - |y| for finite non-zero x and y.  |x| / |y| is
\* (x.c / y.c) * 2^p * 5^q and lies between 2^lo and 2^hi.  Numbers of the
\* same nominal value are ordered by their classes.
AbsCmp(x, y) ==
    LET p == x.e2 - y.e2
        q == x.e5 - y.e5
        lo == p - 14 + (IF q >= 0 THEN 2 * q ELSE 3 * q)
        hi == p + 14 + (IF q >= 0 THEN 3 * q ELSE 2 * q)
        n == BigCmp(
                BigMul5(BigMul2(BigNorm(<<x.c>>), Max(p, 0)), Max(q, 0)),
                BigMul5(BigMul2(BigNorm(<<y.c>>), Max(-p, 0)), Max(-q, 0)))
    IN  IF lo >= 0 THEN 1
        ELSE IF hi <= 0 THEN -1
        ELSE IF n # 0 THEN n
        ELSE IF x.k = y.k THEN 0
        ELSE IF x.k = "below" THEN -1 ELSE 1

\* |x| < |y| for finite x and y
AbsLess(x, y) ==
    /\ IsFinite(x) /\ IsFiniteNonZero(y)
    /\ x.k # "zero" => AbsCmp(x, y) < 0

\* the finite inputs
FiniteInputs == {x \in Inputs : IsFinite(x)}

\* the exponents integral_exponent_for can give x
ExponentsOf ==
    [base \in Bases, x \in FiniteInputs |->
        {r.exp : r \in {o \in IntegralExponentFor(base, x) : ~o.panic}}]

\* the finite inputs of a larger magnitude than x
LargerInputs ==
    [x \in FiniteInputs |-> {y \in FiniteInputs : AbsLess(x, y)}]

\* the exponents integral_exponent_for can give the inputs of a larger
\* magnitude than x
LargerExponents ==
    [base \in Bases, x \in FiniteInputs |->
        UNION {ExponentsOf[base, y] : y \in LargerInputs[x]}]

\* closest_prefix_for gives e, a multiple of 3, a prefix whose exponent is
\* at most that of the prefix of any larger multiple of 3
MonotoneFrom(e, constraint, prefix) ==
    \A e2 \in Exponents :
        (e2 % 3 = 0 /\ e <= e2) =>
            PrefixExponent(prefix) <=
                PrefixExponent(ClosestPrefixFor(e2, constraint).prefix)

\* new_with gave x the prefix closest_prefix_for gives its exponent, and
\* every input of a larger magnitude gets a prefix that is not smaller
NoSmallerPrefixAbove(x, base, constraint, prefix) ==
    /\ \E e \in ExponentsOf[base, x] :
            prefix = ClosestPrefixFor(e, constraint).prefix
    /\ \A e \in LargerExponents[base, x] :
            PrefixExponent(prefix) <=
                PrefixExponent(ClosestPrefixFor(e, constraint).prefix)

\* C28 as stated: closest_prefix_for is monotone over the multiples of 3 for
\* None, UnitOnly, UnitAndAbove, UnitAndBelow and non-empty ascending Custom
\* lists, and for a fixed base and constraint a number of a larger magnitude
\* never gets a smaller prefix.
MonotoneForEveryMagnitude ==
    /\ (/\ op = "closest_prefix_for"
        /\ MonotoneConstraint(arg.constraint)
        /\ arg.exponent % 3 = 0) =>
            MonotoneFrom(arg.exponent, arg.constraint, ret.prefix)
    /\ (/\ op = "new_with"
        /\ ~ret.panic
        /\ MonotoneConstraint(arg.constraint)
        /\ IsFinite(arg.x)) =>
            NoSmallerPrefixAbove(arg.x, arg.base, arg.constraint,
                                 value.prefix)

\* C28: closest_prefix_for is monotone over the multiples of 3 for None,
\* UnitOnly, UnitAndAbove, UnitAndBelow and non-empty ascending Custom
\* lists, and for a fixed base and constraint a finite number of a larger
\* magnitude than a non-zero one never gets a smaller prefix.
MonotoneForNonZeroMagnitudes ==
    /\ (/\ op = "closest_prefix_for"
        /\ MonotoneConstraint(arg.constraint)
        /\ arg.exponent % 3 = 0) =>
            /\ ~ret.panic
            /\ MonotoneFrom(arg.exponent, arg.constraint, ret.prefix)
    /\ (/\ op = "new_with"
        /\ MonotoneConstraint(arg.constraint)
        /\ IsFiniteNonZero(arg.x)) =>
            /\ ~ret.panic
            /\ NoSmallerPrefixAbove(arg.x, arg.base, arg.constraint,
                                    value.prefix)

\* 999 * 10^-3 with [Milli, Kilo] got Milli, which 1000 does not get
MonotoneForNonZeroMagnitudesReached ==
    /\ op = "new_with"
    /\ arg.base = "B1000"
    /\ arg.constraint = Constraint("Custom", <<"Milli", "Kilo">>)
    /\ arg.x = Fin(1, 999, -3, -3)
    /\ value.prefix = "Milli"
    /\ Fin(1, 1, 3, 3) \in LargerInputs[arg.x]
    /\ 3 \in LargerExponents[arg.base, arg.x]
    /\ ClosestPrefixFor(3, arg.constraint).prefix = "Kilo"

\* the prefixes of list
MembersOf(list) == {list[i] : i \in 1..Len(list)}

\* C29: for every non-empty Custom list, sorted or not, and every exponent,
\* closest_prefix_for returns a member of the list (take_while keeps at
\* least the first prefix when the early return is not taken, so that the
\* fallback to Unit is not), hence Unit only when the list contains Unit;
\* the Custom branch of closest_prefix_below returns Some member likewise,
\* and so does new_with have a prefix of the list.
CustomResultIsMember ==
    /\ (/\ op = "closest_prefix_for"
        /\ arg.constraint.tag = "Custom"
        /\ arg.constraint.list # <<>>) =>
            /\ ~ret.panic
            /\ ret.prefix \in MembersOf(arg.constraint.list)
            /\ arg.exponent >= PrefixExponent(arg.constraint.list[1]) =>
                    TakeWhileLen(arg.constraint.list, arg.exponent) >= 1
            /\ ret.prefix = "Unit" => "Unit" \in MembersOf(arg.constraint.list)
    /\ (/\ op = "closest_prefix_below"
        /\ arg.allowed.tag = "Custom"
        /\ arg.allowed.list # <<>>) =>
            /\ ret.ok
            /\ ret.prefix \in MembersOf(arg.allowed.list)
    /\ (/\ op = "new_with"
        /\ ~ret.panic
        /\ arg.constraint.tag = "Custom"
        /\ arg.constraint.list # <<>>) =>
            value.prefix \in MembersOf(arg.constraint.list)

\* an unsorted list without Unit and an exponent below its first prefix
CustomResultIsMemberReached ==
    /\ op = "closest_prefix_for"
    /\ arg.constraint = Constraint("Custom", <<"Kilo", "Yocto", "Milli">>)
    /\ arg.exponent = 0
    /\ ~ret.panic
    /\ ret.prefix = "Kilo"

\* C30: each prefix has one symbol, the 17 symbols are pairwise distinct
\* and the one of Unit is the empty string; Prefix::from_str on the symbol
\* of a named prefix gives that prefix back, and on the symbol of Unit an
\* Err, no string being parsed into Unit.
SymbolRoundTrip ==
    /\ op = "symbol" =>
        /\ ret.symbol = PrefixSymbol(arg.prefix)
        /\ \A q \in Prefixes \ {arg.prefix} : PrefixSymbol(q) # ret.symbol
        /\ ret.symbol = "" <=> arg.prefix = "Unit"
        /\ Cardinality({PrefixSymbol(q) : q \in Prefixes}) = 17
    /\ (op = "from_str" /\ arg.prefix # "") =>
        /\ arg.s = PrefixSymbol(arg.prefix)
        /\ IF arg.prefix = "Unit"
           THEN /\ ~ret.ok
                /\ ret.err = "ExponentParsing"
                /\ ret.errtext = ""
           ELSE ret.ok /\ ret.prefix = arg.prefix
    /\ op = "from_str" =>
        /\ ~(ret.ok /\ ret.prefix = "Unit")
        /\ arg.s = "" => ~ret.ok

\* the symbol of Micro has been parsed back into Micro
SymbolRoundTripReached ==
    /\ op = "from_str"
    /\ arg.prefix = "Micro"
    /\ arg.s = "µ"
    /\ ret.ok
    /\ ret.prefix = "Micro"

=============================================================================
